---------------------------- MODULE Spec2Model ----------------------------
(***************************************************************************)
(* Model of the log-analyzer backend: the file tailer (FileWatcher), the   *)
(* frame parser (LogParser), the hot store (CacheManager over Redis) and   *)
(* the cold store (LogRepository over the log_entries table).              *)
(*                                                                         *)
(* A file is a sequence of tokens.  A token stands for a run of bytes that *)
(* no write and no read splits:                                            *)
(*   "S"        five '*' characters (a marker is ten, i.e. two tokens)     *)
(*   "c1".."c6" half of a correlation id (characters of [a-f0-9-])         *)
(*   "{" "}"    the opening and the closing half of a JSON object          *)
(*   "p1".."p6" the members of a JSON object                               *)
(*   "\n"       a newline                                                  *)
(* Offsets and positions are counted in tokens.                            *)
(***************************************************************************)
EXTENDS Integers, Sequences, FiniteSets, TLC

\* ------------------------------------------------------------------ bounds
MaxFrames == 2      \* frames the upstream writer starts in one behaviour
MaxTasks == 2       \* process_file / scan_all_files coroutines in flight
MaxTruncs == 1      \* truncations (rotations) of the file
MaxRestarts == 1    \* restarts of the backend process
MaxRows == 2        \* rows of the log_entries table
MaxScans == 1       \* calls of scan_all_files
MaxQueries == 2     \* calls of get_logs
MaxClock == 5       \* the wall clock stops here
MaxHot == 2         \* entries in the recent files
MaxCold == 2        \* rows of the table a query runs over
MaxConns == 3       \* websockets that connect
MaxBroadcasts == 2  \* calls of broadcast_log
MaxCalls == 3       \* calls of the methods of the hot store
MaxParseFrames == 3 \* frames of a file that is parsed
MaxSubscribers == 2 \* websockets whose handlers are followed
MaxMessages == 1    \* messages and timeouts of the handlers
MaxLimit == 2       \* the limit of search_logs

Files == {"f1"}
CidNames == <<"c1", "c2", "c3", "c4", "c5", "c6">>
PayloadNames == <<"p1", "p2", "p3", "p4", "p5", "p6">>
CidToks == {CidNames[i] : i \in 1..Len(CidNames)}
PayloadToks == {PayloadNames[i] : i \in 1..Len(PayloadNames)}
Kinds == {"full", "open"}   \* a frame with both markers / with no closing marker

\* The required fields of LogEntry, and JSON objects that lack some of them: an
\* object with the nine required members and no other, one with five of them,
\* and one object for each required member, with every required member but it.
RequiredFields ==
    {"timestamp", "logLevel", "apiName", "serviceName", "thread", "logger",
     "sessionId", "correlationId", "type"}
MissingOf ==
    [no_timestamp |-> "timestamp", no_logLevel |-> "logLevel", no_apiName |-> "apiName",
     no_serviceName |-> "serviceName", no_thread |-> "thread", no_logger |-> "logger",
     no_sessionId |-> "sessionId", no_correlationId |-> "correlationId",
     no_type |-> "type"]
VariantToks == {"nine", "five"} \cup DOMAIN MissingOf
\* the members of the object p
Members(p) ==
    IF p \in PayloadToks THEN RequiredFields \cup {"durationMs", "url"}
    ELSE IF p = "nine" THEN RequiredFields
    ELSE IF p = "five"
         THEN {"correlationId", "timestamp", "apiName", "serviceName", "logLevel"}
    ELSE RequiredFields \ {MissingOf[p]}

\* The correlation id of frame k, as text, and the frame's tokens.
CidOf(k) == <<CidNames[k], CidNames[k]>>
Marker(cid) == <<"S", "S">> \o cid \o <<"S", "S">>
Body(k) == <<"{", PayloadNames[k], "}">>
FrameToks(k, kind) ==
    Marker(CidOf(k)) \o <<"\n">> \o Body(k) \o <<"\n">>
        \o (IF kind = "full" THEN Marker(CidOf(k)) \o <<"\n">> ELSE <<>>)

\* ------------------------------------------------------------ text helpers
RECURSIVE IndexFrom(_, _, _)
IndexFrom(s, t, i) ==
    IF i > Len(s) THEN 0 ELSE IF s[i] = t THEN i ELSE IndexFrom(s, t, i + 1)

\* str.split('\n')
RECURSIVE SplitLines(_)
SplitLines(s) ==
    LET n == IndexFrom(s, "\n", 1)
    IN  IF n = 0 THEN <<s>>
        ELSE <<SubSeq(s, 1, n - 1)>> \o SplitLines(SubSeq(s, n + 1, Len(s)))

\* '\n'.join(lines)
RECURSIVE JoinLines(_)
JoinLines(ls) ==
    IF Len(ls) = 0 THEN <<>>
    ELSE IF Len(ls) = 1 THEN ls[1]
    ELSE ls[1] \o <<"\n">> \o JoinLines(Tail(ls))

\* str.strip(): the only whitespace of the alphabet is the newline
RECURSIVE Strip(_)
Strip(s) ==
    IF Len(s) = 0 THEN s
    ELSE IF s[1] = "\n" THEN Strip(Tail(s))
    ELSE IF s[Len(s)] = "\n" THEN Strip(SubSeq(s, 1, Len(s) - 1))
    ELSE s

\* '**********' in line
HasTenStars(line) ==
    \E i \in 1..(Len(line) - 1) : line[i] = "S" /\ line[i + 1] = "S"

\* the end of the run of cid tokens that starts at i
RECURSIVE CidRunEnd(_, _)
CidRunEnd(s, i) ==
    IF i + 1 <= Len(s) /\ s[i + 1] \in CidToks THEN CidRunEnd(s, i + 1) ELSE i

\* re.search(r'\*+([a-f0-9\-]+)\*+', line).group(1), or <<>> for None
extract_correlation_id(line) ==
    LET starts == {i \in 2..Len(line) :
                     /\ line[i - 1] = "S"
                     /\ line[i] \in CidToks
                     /\ CidRunEnd(line, i) < Len(line)
                     /\ line[CidRunEnd(line, i) + 1] = "S"}
    IN  IF starts = {} THEN <<>>
        ELSE LET a == CHOOSE i \in starts : \A j \in starts : i <= j
             IN  SubSeq(line, a, CidRunEnd(line, a))

\* len(re.findall(r'\*{10}[a-f0-9\-]+\*{10}', content)), scanning from i
RECURSIVE CountDelimiters(_, _)
CountDelimiters(s, i) ==
    IF i + 4 > Len(s) THEN 0
    ELSE IF /\ s[i] = "S" /\ s[i + 1] = "S" /\ s[i + 2] \in CidToks
            /\ CidRunEnd(s, i + 2) + 2 <= Len(s)
            /\ s[CidRunEnd(s, i + 2) + 1] = "S"
            /\ s[CidRunEnd(s, i + 2) + 2] = "S"
         THEN 1 + CountDelimiters(s, CidRunEnd(s, i + 2) + 3)
         ELSE CountDelimiters(s, i + 1)

is_log_complete(content) == CountDelimiters(content, 1) >= 2

\* --------------------------------------------------------------- LogParser
\* json_str, whitespace aside
JsonText(json_lines) == SelectSeq(JoinLines(json_lines), LAMBDA t : t # "\n")
\* a json.loads that takes a text that is cut short before its closing brace
JsonValid_cut_short(json_lines) ==
    LET txt == JsonText(json_lines)
    IN  /\ Len(txt) >= 2 /\ txt[1] = "{"
        /\ txt[2] \in PayloadToks \cup VariantToks

\* json.loads(json_str): the text is valid JSON iff, whitespace aside, it is
\* one whole object
JsonValid(json_lines) ==
    LET txt == JsonText(json_lines)
    IN  /\ Len(txt) = 3 /\ txt[1] = "{" /\ txt[3] = "}"
        /\ txt[2] \in PayloadToks \cup VariantToks

\* the correlationId member of the object with members p
PayloadIndex(p) == CHOOSE k \in 1..Len(PayloadNames) : PayloadNames[k] = p
JsonCorrelationId(p) ==
    IF p \in PayloadToks THEN CidOf(PayloadIndex(p))
    ELSE IF "correlationId" \in Members(p) THEN CidOf(1)
    ELSE <<>>

\* a LogEntry that requires the five attributes of the record model
LogEntryValid_five_required(p) ==
    {"correlationId", "timestamp", "apiName", "serviceName", "logLevel"}
        \subseteq Members(p) \cup {"correlationId"}

\* LogEntry(**log_data), after log_data['correlationId'] was filled in from the
\* marker: every required field is a key of log_data
LogEntryValid(p) == RequiredFields \subseteq Members(p) \cup {"correlationId"}

\* the lines between the first and the second line holding ten stars
RECURSIVE JsonLines(_, _, _, _)
JsonLines(lines, i, in_json, acc) ==
    IF i > Len(lines) THEN acc
    ELSE IF HasTenStars(lines[i])
         THEN IF ~in_json THEN JsonLines(lines, i + 1, TRUE, acc) ELSE acc
         ELSE IF in_json THEN JsonLines(lines, i + 1, in_json, Append(acc, lines[i]))
         ELSE JsonLines(lines, i + 1, in_json, acc)

NoLog == [ok |-> FALSE, correlationId |-> <<>>, payload |-> ""]

parse_log_entry(raw_log) ==
    LET lines == SplitLines(Strip(raw_log))
        correlation_id == extract_correlation_id(lines[1])
        json_lines == JsonLines(lines, 1, FALSE, <<>>)
        p == JsonText(json_lines)[2]
    IN  IF correlation_id = <<>> THEN NoLog
        ELSE IF json_lines = <<>> THEN NoLog
        ELSE IF ~JsonValid(json_lines) THEN NoLog
        ELSE IF ~LogEntryValid(p) THEN NoLog
        ELSE [ok |-> TRUE,
              correlationId |-> IF JsonCorrelationId(p) = <<>> THEN correlation_id
                                ELSE JsonCorrelationId(p),
              payload |-> p]

\* ------------------------------------------------- FileWatcher: the splitter
IsDelimiterLine(line) == HasTenStars(line) /\ extract_correlation_id(line) # <<>>

RECURSIVE SplitLoop(_, _, _, _, _)
SplitLoop(lines, i, entries, current_entry, in_entry) ==
    IF i > Len(lines)
    THEN IF current_entry # <<>> THEN Append(entries, JoinLines(current_entry))
         ELSE entries
    ELSE IF IsDelimiterLine(lines[i])
         THEN IF in_entry /\ current_entry # <<>>
              THEN SplitLoop(lines, i + 1,
                             Append(entries, JoinLines(Append(current_entry, lines[i]))),
                             <<>>, FALSE)
              ELSE SplitLoop(lines, i + 1, entries, <<lines[i]>>, TRUE)
         ELSE IF in_entry
              THEN SplitLoop(lines, i + 1, entries, Append(current_entry, lines[i]), TRUE)
              ELSE SplitLoop(lines, i + 1, entries, current_entry, in_entry)

split_log_entries(content) == SplitLoop(SplitLines(content), 1, <<>>, <<>>, FALSE)

\* the cid of the marker that opens an entry and of the marker that closes it
\* (<<>> when the entry's last line is no marker)
EntryOpenCid(entry) == extract_correlation_id(SplitLines(Strip(entry))[1])
EntryCloseCid(entry) ==
    LET lines == SplitLines(Strip(entry))
    IN  IF Len(lines) < 2 \/ ~HasTenStars(lines[Len(lines)]) THEN <<>>
        ELSE extract_correlation_id(lines[Len(lines)])

\* ------------------------------------------------------------- dictionaries
DictSet(d, k, v) == [x \in DOMAIN d \cup {k} |-> IF x = k THEN v ELSE d[x]]
DictDel(d, k) == [x \in DOMAIN d \ {k} |-> d[x]]
EmptyDict == [x \in {} |-> 0]

\* -------------------------------------------------------------------- state
VARIABLES
    files,             \* the file system: path -> content, for the files that exist
    frames,            \* ghost: the frames the upstream writer has started
    widx,              \* ghost: tokens of the newest frame written so far
    truncs,            \* ghost: truncations so far
    observer,          \* FileWatcher.observer: "none" until start(), then "started"
    file_positions,    \* FileWatcher.file_positions
    incomplete_logs,   \* FileWatcher.incomplete_logs
    active_files,      \* FileWatcher.active_files
    websocket_manager, \* FileWatcher.websocket_manager is set
    tasks,             \* the process_file / scan_all_files coroutines in flight
    redis,             \* the hot store: key (correlation id) -> log_data
    redis_up,          \* the hot store is reachable
    log_entries,       \* the cold store: rows of the log_entries table
    delivered,         \* ghost: the records handed to set_log / broadcast_log
    restarts,          \* ghost: restarts so far
    scans,             \* ghost: calls of scan_all_files so far
    stopped_positions, \* ghost: file_positions when the process last stopped
    file_entries,      \* the entries the query engine parses from the recent files
    db_rows,           \* the rows of log_entries the query engine can fetch
    filter,            \* the LogFilter of the queries
    clock,             \* datetime.now()
    returned,          \* ghost: the calls of get_logs so far, with what they returned
    active_connections,\* WebSocketManager.active_connections
    broadcasts,        \* the broadcast_log coroutines in flight
    received,          \* ghost: connection -> the new_log messages sent to it
    sends,             \* ghost: connection -> the outcomes of the sends to it
    published,         \* ghost: the records broadcast_log was called with, in order
    stats_cache,       \* WebSocketManager.stats_cache
    replies,           \* ghost: the pong and stats_update messages sent so far
    cache_calls        \* ghost: the calls of the hot store's methods, with their results

vars == <<files, frames, widx, truncs, observer, file_positions, incomplete_logs,
          active_files, websocket_manager, tasks, redis, redis_up, log_entries,
          delivered, restarts, scans, stopped_positions, file_entries, db_rows,
          filter, clock, returned, active_connections, broadcasts, received, sends,
          published, stats_cache, replies, cache_calls>>

watcher_vars == <<observer, file_positions, incomplete_logs, active_files,
                  websocket_manager, tasks>>
writer_vars == <<files, frames, widx, truncs>>
store_vars == <<redis, redis_up, log_entries>>
ghost_vars == <<restarts, scans, stopped_positions>>
query_vars == <<file_entries, db_rows, filter, clock, returned>>
socket_vars == <<active_connections, broadcasts, received, sends, published>>
stats_vars == <<stats_cache, replies>>
hot_vars == <<cache_calls>>
api_vars == <<query_vars, socket_vars, stats_vars, hot_vars>>
tailer_vars == <<writer_vars, watcher_vars, store_vars, delivered, ghost_vars>>

IdleTask ==
    [kind |-> "idle", file |-> "", new_position |-> 0, entries |-> <<>>, at |-> 0,
     todo |-> {}]
TaskIds == 1..MaxTasks
Running(f) == {t \in TaskIds : tasks[t].kind # "idle" /\ tasks[t].file = f}
FreeTask(t) == tasks[t].kind = "idle" /\ \A u \in TaskIds : u < t => tasks[u].kind # "idle"

\* the tailer, the stores and the writer after construction
TailerInit ==
    /\ files = EmptyDict
    /\ frames = <<>>
    /\ widx = 0
    /\ truncs = 0
    /\ observer = "none"
    /\ file_positions = EmptyDict
    /\ incomplete_logs = EmptyDict
    /\ active_files = {}
    /\ websocket_manager = FALSE
    /\ tasks = [t \in TaskIds |-> IdleTask]
    /\ redis = EmptyDict
    /\ redis_up = TRUE
    /\ log_entries = <<>>
    /\ delivered = <<>>
    /\ restarts = 0
    /\ scans = 0
    /\ stopped_positions = EmptyDict
    /\ cache_calls = <<>>

\* ------------------------------------------------- the upstream log writer
FrameDone(k) ==
    IF k < Len(frames) THEN TRUE
    ELSE k = Len(frames) /\ widx = Len(FrameToks(k, frames[k].kind))
WriterIdle == IF Len(frames) = 0 THEN TRUE ELSE FrameDone(Len(frames))

CreateFile(f) ==
    /\ f \notin DOMAIN files
    /\ files' = DictSet(files, f, <<>>)
    /\ UNCHANGED <<frames, widx, truncs, watcher_vars, store_vars, delivered,
                   ghost_vars>>
    /\ UNCHANGED api_vars

\* how far the next write of frame k goes from token w: to the end of the line
\* (whole_line) or one token further
WriteEnd(k, kind, w, whole_line) ==
    LET n == IndexFrom(FrameToks(k, kind), "\n", w + 1)
    IN  IF whole_line /\ n # 0 THEN n ELSE w + 1

\* the writer starts frame Len(frames)+1
WriteFrame(f, kind, whole_line) ==
    /\ f \in DOMAIN files
    /\ WriterIdle
    /\ Len(frames) < MaxFrames
    /\ LET k == Len(frames) + 1
           n == WriteEnd(k, kind, 0, whole_line)
       IN  /\ frames' = Append(frames, [kind |-> kind, file |-> f,
                                        start |-> Len(files[f]), gen |-> truncs,
                                        tailed |-> observer = "started",
                                        partial_pass |-> FALSE])
           /\ files' = [files EXCEPT ![f] = @ \o SubSeq(FrameToks(k, kind), 1, n)]
           /\ widx' = n
    /\ UNCHANGED <<truncs, watcher_vars, store_vars, delivered, ghost_vars>>
    /\ UNCHANGED api_vars

\* the writer goes on with the frame it is writing
WriteMore(whole_line) ==
    /\ ~WriterIdle
    /\ LET k == Len(frames)
           f == frames[k].file
           n == WriteEnd(k, frames[k].kind, widx, whole_line)
       IN  /\ files' = [files EXCEPT ![f] =
                          @ \o SubSeq(FrameToks(k, frames[k].kind), widx + 1, n)]
           /\ widx' = n
    /\ UNCHANGED <<frames, truncs, watcher_vars, store_vars, delivered, ghost_vars>>
    /\ UNCHANGED api_vars

\* writes of whole lines, and writes that end anywhere
BeginFrame(f, kind) == WriteFrame(f, kind, TRUE)
AppendLine == WriteMore(TRUE)
BeginFrameToken(f, kind) == WriteFrame(f, kind, FALSE)
AppendToken == WriteMore(FALSE)

\* rotation by truncation, between two frames
Truncate(f) ==
    /\ f \in DOMAIN files
    /\ WriterIdle
    /\ files[f] # <<>>
    /\ truncs < MaxTruncs
    /\ files' = [files EXCEPT ![f] = <<>>]
    /\ truncs' = truncs + 1
    /\ UNCHANGED <<frames, widx, watcher_vars, store_vars, delivered, ghost_vars>>
    /\ UNCHANGED api_vars

\* ------------------------------------------------------------ CacheManager
\* a set_log that keeps the value that is there (SET with NX)
set_log_keep_first(store, correlation_id, log_data) ==
    IF redis_up /\ correlation_id \notin DOMAIN store
    THEN DictSet(store, correlation_id, log_data) ELSE store

\* set_log: setex under the key of the correlation id; False (nothing stored)
\* when the store cannot be reached
set_log(store, correlation_id, log_data) ==
    IF redis_up THEN DictSet(store, correlation_id, log_data) ELSE store

\* -------------------------------------------- FileWatcher: parse and deliver
Delivery(f, entry, log_data) ==
    [file |-> f, log |-> log_data, open |-> EntryOpenCid(entry),
     close |-> EntryCloseCid(entry), cached |-> redis_up]

\* The for loop of _parse_and_cache_logs from entry i on, up to the coroutine's
\* next suspension (the await of broadcast_log) or to the end of the loop.
RECURSIVE ParseLoop(_, _, _, _, _, _)
ParseLoop(f, entries, i, inc, store, dl) ==
    IF i > Len(entries)
    THEN [incomplete_logs |-> inc, redis |-> store, delivered |-> dl,
          entries |-> entries, at |-> i, suspended |-> FALSE, file |-> f]
    ELSE IF i = Len(entries) /\ ~is_log_complete(entries[i])
         THEN ParseLoop(f, entries, i + 1, DictSet(inc, f, entries[i]), store, dl)
         ELSE LET log_data == parse_log_entry(entries[i])
              IN  IF log_data.ok /\ log_data.correlationId # <<>>
                  THEN LET store2 == set_log(store, log_data.correlationId, log_data)
                           dl2 == Append(dl, Delivery(f, entries[i], log_data))
                       IN  IF websocket_manager
                           THEN [incomplete_logs |-> inc, redis |-> store2,
                                 delivered |-> dl2, entries |-> entries, at |-> i,
                                 suspended |-> TRUE, file |-> f]
                           ELSE ParseLoop(f, entries, i + 1, inc, store2, dl2)
                  ELSE ParseLoop(f, entries, i + 1, inc, store, dl)

\* _parse_and_cache_logs up to its first suspension
parse_and_cache_logs(f, content, inc, store, dl) ==
    LET whole == IF f \in DOMAIN inc THEN inc[f] \o content ELSE content
    IN  ParseLoop(f, split_log_entries(whole), 1, DictDel(inc, f), store, dl)

\* f.tell() taken before f.read(): the start of the read, not its end
ReadFrom_tell_before_read(f, position) ==
    IF position >= Len(files[f])
    THEN [new_content |-> <<>>, new_position |-> position]
    ELSE [new_content |-> SubSeq(files[f], position + 1, Len(files[f])),
          new_position |-> position]

\* f.seek(position); f.read(); f.tell()
ReadFrom(f, position) ==
    IF position >= Len(files[f])
    THEN [new_content |-> <<>>, new_position |-> position]
    ELSE [new_content |-> SubSeq(files[f], position + 1, Len(files[f])),
          new_position |-> Len(files[f])]

\* a coroutine that stores the end of the last entry it consumed: the end of
\* its read less the text it left in incomplete_logs
Settle_consumed_bytes(t, kind, new_position, todo, r, positions) ==
    /\ incomplete_logs' = r.incomplete_logs
    /\ redis' = r.redis
    /\ delivered' = r.delivered
    /\ IF r.suspended
       THEN /\ tasks' = [tasks EXCEPT ![t] =
                           [kind |-> kind, file |-> r.file, new_position |-> new_position,
                            entries |-> r.entries, at |-> r.at, todo |-> todo]]
            /\ file_positions' = positions
       ELSE /\ tasks' = [tasks EXCEPT ![t] = IdleTask]
            /\ file_positions' =
                  IF kind = "process"
                  THEN DictSet(positions, r.file,
                               IF r.file \in DOMAIN r.incomplete_logs
                               THEN new_position - Len(r.incomplete_logs[r.file])
                               ELSE new_position)
                  ELSE positions

\* what a coroutine leaves behind once it is suspended or done
Settle(t, kind, new_position, todo, r, positions) ==
    /\ incomplete_logs' = r.incomplete_logs
    /\ redis' = r.redis
    /\ delivered' = r.delivered
    /\ IF r.suspended
       THEN /\ tasks' = [tasks EXCEPT ![t] =
                           [kind |-> kind, file |-> r.file, new_position |-> new_position,
                            entries |-> r.entries, at |-> r.at, todo |-> todo]]
            /\ file_positions' = positions
       ELSE /\ tasks' = [tasks EXCEPT ![t] = IdleTask]
            /\ file_positions' = IF kind = "process"
                                 THEN DictSet(positions, r.file, new_position)
                                 ELSE positions

\* ghost: a read that takes in the newest frame from its start, made when the
\* frame's opening marker and JSON are in the file and its closing marker is not
MarkPartialPass(f, position, rd) ==
    [k \in 1..Len(frames) |->
        IF /\ k = Len(frames) /\ frames[k].file = f /\ frames[k].gen = truncs
           /\ widx = Len(FrameToks(k, "open")) /\ frames[k].kind = "full"
           /\ position <= frames[k].start /\ rd.new_position = Len(files[f])
        THEN [frames[k] EXCEPT !.partial_pass = TRUE]
        ELSE frames[k]]

\* process_file(f) as far as the tailer and the hot store go, run to its first
\* suspension
ProcessFile(f, t) ==
    /\ observer = "started"
    /\ f \in DOMAIN files
    /\ FreeTask(t)
    /\ \E positions \in {IF f \in DOMAIN file_positions THEN file_positions
                         ELSE DictSet(file_positions, f, 0)} :
       \E rd \in {ReadFrom(f, positions[f])} :
           IF rd.new_content = <<>>
           THEN /\ file_positions' = positions
                /\ UNCHANGED <<incomplete_logs, redis, delivered, tasks, frames>>
           ELSE /\ \E r \in {parse_and_cache_logs(f, rd.new_content, incomplete_logs,
                                                    redis, delivered)} :
                      Settle(t, "process", rd.new_position, {}, r, positions)
                /\ frames' = MarkPartialPass(f, positions[f], rd)
    /\ UNCHANGED <<files, widx, truncs, observer, active_files, websocket_manager, redis_up,
                   log_entries, ghost_vars>>

\* on_modified -> create_task(process_file(f)), run to its first suspension
process_file(f, t) ==
    /\ ProcessFile(f, t)
    /\ UNCHANGED api_vars

\* scan_all_files over the files of todo, up to the first suspension
RECURSIVE ScanFiles(_, _, _, _)
ScanFiles(todo, inc, store, dl) ==
    IF todo = {}
    THEN [incomplete_logs |-> inc, redis |-> store, delivered |-> dl,
          entries |-> <<>>, at |-> 0, suspended |-> FALSE, file |-> "", todo |-> {}]
    ELSE LET f == CHOOSE x \in todo : TRUE
             r == parse_and_cache_logs(f, files[f], inc, store, dl)
         IN  IF r.suspended
             THEN [incomplete_logs |-> r.incomplete_logs, redis |-> r.redis,
                   delivered |-> r.delivered, entries |-> r.entries, at |-> r.at,
                   suspended |-> TRUE, file |-> f, todo |-> todo \ {f}]
             ELSE ScanFiles(todo \ {f}, r.incomplete_logs, r.redis, r.delivered)

scan_all_files(t) ==
    /\ observer = "started"
    /\ active_files # {}
    /\ scans < MaxScans
    /\ FreeTask(t)
    /\ \E r \in {ScanFiles(active_files, incomplete_logs, redis, delivered)} :
          Settle(t, "scan", 0, r.todo, r, file_positions)
    /\ scans' = scans + 1
    /\ UNCHANGED <<writer_vars, observer, active_files, websocket_manager, redis_up,
                   log_entries, restarts, stopped_positions>>
    /\ UNCHANGED api_vars

\* a suspended coroutine runs on to its next suspension or to its end
ResumeTask(t) ==
    /\ tasks[t].kind # "idle"
    /\ \E tk \in {tasks[t]} :
          \E r \in {ParseLoop(tk.file, tk.entries, tk.at + 1, incomplete_logs, redis,
                              delivered)} :
             IF r.suspended \/ tk.kind = "process" \/ tk.todo = {}
             THEN Settle(t, tk.kind, tk.new_position, tk.todo, r, file_positions)
             ELSE \E r2 \in {ScanFiles(tk.todo, r.incomplete_logs, r.redis,
                                        r.delivered)} :
                     Settle(t, "scan", 0, r2.todo, r2, file_positions)
    /\ UNCHANGED <<writer_vars, observer, active_files, websocket_manager, redis_up,
                   log_entries, ghost_vars>>

\* the send a coroutine was suspended in completes (or fails: broadcast_log
\* catches it); the coroutine runs on to its next suspension or to its end
Resume(t) ==
    /\ ResumeTask(t)
    /\ UNCHANGED api_vars

\* ------------------------------------------------- FileWatcher: life cycle
\* a start() that leaves every file at offset 0
start_from_offset_zero ==
    /\ observer = "none"
    /\ file_positions' = [f \in DOMAIN files |-> 0]
    /\ active_files' = DOMAIN files
    /\ observer' = "started"
    /\ UNCHANGED <<writer_vars, incomplete_logs, websocket_manager, tasks, store_vars,
                   delivered, ghost_vars>>
    /\ UNCHANGED api_vars

\* start(): _initialize_file_positions, then the observer runs
start ==
    /\ observer = "none"
    /\ file_positions' = [f \in DOMAIN files |-> Len(files[f])]
    /\ active_files' = DOMAIN files
    /\ observer' = "started"
    /\ UNCHANGED <<writer_vars, incomplete_logs, websocket_manager, tasks, store_vars,
                   delivered, ghost_vars>>
    /\ UNCHANGED api_vars

\* file_watcher.websocket_manager is set
AttachWebSocketManager ==
    /\ observer = "started"
    /\ ~websocket_manager
    /\ websocket_manager' = TRUE
    /\ UNCHANGED <<writer_vars, observer, file_positions, incomplete_logs, active_files,
                   tasks, store_vars, delivered, ghost_vars>>
    /\ UNCHANGED api_vars

\* the process stops and a new one is constructed: FileWatcher.__init__
Restart ==
    /\ observer = "started"
    /\ restarts < MaxRestarts
    /\ restarts' = restarts + 1
    /\ stopped_positions' = file_positions
    /\ observer' = "none"
    /\ file_positions' = EmptyDict
    /\ incomplete_logs' = EmptyDict
    /\ active_files' = {}
    /\ websocket_manager' = FALSE
    /\ tasks' = [t \in TaskIds |-> IdleTask]
    /\ UNCHANGED <<writer_vars, store_vars, delivered, scans>>
    /\ UNCHANGED api_vars

\* ------------------------------------------------------------- environment
RedisDown ==
    /\ redis_up
    /\ redis_up' = FALSE
    /\ UNCHANGED <<writer_vars, watcher_vars, redis, log_entries, delivered, ghost_vars>>
    /\ UNCHANGED api_vars

RedisUp ==
    /\ ~redis_up
    /\ redis_up' = TRUE
    /\ UNCHANGED <<writer_vars, watcher_vars, redis, log_entries, delivered, ghost_vars>>
    /\ UNCHANGED api_vars

\* ------------------------------------------------------------ LogRepository
\* insert_log: db.add(LogEntryTable(...)); db.commit() -- a new row, with the
\* next value of the primary key id
NewRow(rows, log_data) ==
    Append(rows, [id |-> Len(rows) + 1, correlation_id |-> log_data.correlationId,
                  log_data |-> log_data])

ParsedLogs == {delivered[i].log : i \in 1..Len(delivered)}

insert_log(log_data) ==
    /\ Len(log_entries) < MaxRows
    /\ log_entries' = NewRow(log_entries, log_data)
    /\ UNCHANGED <<writer_vars, watcher_vars, redis, redis_up, delivered, ghost_vars>>
    /\ UNCHANGED api_vars

\* ------------------------------------------------------------- QueryEngine
\* Times are whole ticks.  A timestamp string is a date-time text, t, followed
\* by an offset: none, "+02:00", or text that is no timestamp at all.
Timestamp(t, offset) == [t |-> t, offset |-> offset]
BadTimestamp == Timestamp(0, "?")

\* the order of Python's str comparison on timestamp strings: by the date-time
\* text, a string before its extension by an offset; text that starts with no
\* digit after them all
StringKey(ts) ==
    IF ts.offset = "?" THEN 2 * (MaxClock + 1)
    ELSE 2 * ts.t + (IF ts.offset = "" THEN 0 ELSE 1)

\* datetime.isoformat() of a DateTime column (no time zone)
isoformat(t) == Timestamp(t, "")

\* _parse_timestamp: fromisoformat of the string less '+02:00'; datetime.now()
\* when that fails
parse_timestamp(ts, now) == IF ts.offset = "?" THEN now ELSE ts.t

\* settings.LOG_FILE_RETENTION_DAYS
file_retention_days == 2

\* LogFilter: "" and 0 stand for None
NoFilter ==
    [correlationId |-> "", apiName |-> "", serviceName |-> "", sessionId |-> "",
     hasError |-> "", logLevel |-> "", startDate |-> 0, endDate |-> 0,
     page |-> 1, pageSize |-> 1]

\* _should_query_files, with the value its datetime.now() returns
should_query_files(f, now) ==
    IF f.startDate = 0 /\ f.endDate = 0 THEN TRUE
    ELSE LET file_cutoff == now - file_retention_days
         IN  IF f.startDate # 0 /\ f.startDate >= file_cutoff THEN TRUE
             ELSE IF f.endDate # 0 /\ f.endDate >= file_cutoff THEN TRUE
             ELSE FALSE

\* a routing that sends a range starting at the cutoff to the table as well
should_query_database_inclusive(f, now) ==
    IF f.startDate = 0 /\ f.endDate = 0 THEN TRUE
    ELSE IF f.startDate # 0 /\ f.startDate <= now - file_retention_days THEN TRUE
    ELSE f.endDate = 0

\* _should_query_database, with the value its datetime.now() returns
should_query_database(f, now) ==
    IF f.startDate = 0 /\ f.endDate = 0 THEN TRUE
    ELSE LET file_cutoff == now - file_retention_days
         IN  IF f.startDate # 0 /\ f.startDate < file_cutoff THEN TRUE
             ELSE IF f.endDate = 0 THEN TRUE
             ELSE FALSE

\* _apply_filter_to_entries; raised: e.hasError is no attribute of LogEntry
apply_filter_to_entries(entries, f, now) ==
    LET ByCid(e) == f.correlationId = "" \/ e.correlationId = f.correlationId
        ByApi(e) == f.apiName = "" \/ e.apiName = f.apiName
        ByService(e) == f.serviceName = "" \/ e.serviceName = f.serviceName
        BySession(e) == f.sessionId = "" \/ e.sessionId = f.sessionId
        ByStart(e) == f.startDate = 0 \/ parse_timestamp(e.timestamp, now) >= f.startDate
        ByEnd(e) == f.endDate = 0 \/ parse_timestamp(e.timestamp, now) <= f.endDate
        filtered == SelectSeq(SelectSeq(SelectSeq(SelectSeq(entries, ByCid), ByApi),
                                        ByService), BySession)
    IN  IF f.hasError # "" /\ filtered # <<>>
        THEN [raised |-> TRUE, entries |-> <<>>]
        ELSE [raised |-> FALSE,
              entries |-> SelectSeq(SelectSeq(filtered, ByStart), ByEnd)]

\* entry.dict(): the dict of a LogEntry has no id
EntryDict(e) ==
    [id |-> 0, correlationId |-> e.correlationId, timestamp |-> e.timestamp,
     logLevel |-> e.logLevel, apiName |-> e.apiName, serviceName |-> e.serviceName,
     sessionId |-> e.sessionId, hasError |-> ""]

\* _query_files over the entries parsed from the recent files
query_files(f, now) ==
    LET r == apply_filter_to_entries(file_entries, f, now)
    IN  [raised |-> r.raised,
         logs |-> [i \in 1..Len(r.entries) |-> EntryDict(r.entries[i])]]

\* _db_to_dict: the dict of a row has its id and no logLevel
db_to_dict(db_log) ==
    [id |-> db_log.id, correlationId |-> db_log.correlation_id,
     timestamp |-> isoformat(db_log.timestamp), logLevel |-> "",
     apiName |-> db_log.api_name, serviceName |-> db_log.service_name,
     sessionId |-> db_log.session_id, hasError |-> db_log.has_error]

\* the rows a filter selects
RowMatches(row, f) ==
    /\ f.correlationId = "" \/ row.correlation_id = f.correlationId
    /\ f.apiName = "" \/ row.api_name = f.apiName
    /\ f.serviceName = "" \/ row.service_name = f.serviceName
    /\ f.sessionId = "" \/ row.session_id = f.sessionId
    /\ f.logLevel = "" \/ row.log_level = f.logLevel
    /\ f.hasError = "" \/ row.has_error = f.hasError
    /\ f.startDate = 0 \/ row.timestamp >= f.startDate
    /\ f.endDate = 0 \/ row.timestamp <= f.endDate

\* the order of the correlation ids as strings
CidRank(cid) == CHOOSE n \in 1..4 : <<"a", "b", "c", "d">>[n] = cid

\* ORDER BY timestamp DESC, correlation_id ASC (then id)
RowBefore(a, b) ==
    \/ a.timestamp > b.timestamp
    \/ a.timestamp = b.timestamp /\ CidRank(a.correlation_id) < CidRank(b.correlation_id)
    \/ a.timestamp = b.timestamp /\ a.correlation_id = b.correlation_id /\ a.id < b.id

RECURSIVE OrderRows(_)
OrderRows(rows) ==
    IF rows = {} THEN <<>>
    ELSE LET first == CHOOSE a \in rows : \A b \in rows \ {a} : RowBefore(a, b)
         IN  <<first>> \o OrderRows(rows \ {first})

\* a slice seq[start_idx:end_idx] of Python (indices from 0)
Slice(seq, start_idx, end_idx) ==
    IF start_idx >= Len(seq) THEN <<>>
    ELSE SubSeq(seq, start_idx + 1, IF end_idx < Len(seq) THEN end_idx ELSE Len(seq))

\* LogRepository.get_logs_with_filter: the page of the filter of the matching
\* rows, and their count
get_logs_with_filter(f) ==
    LET matching == OrderRows({db_rows[i] : i \in {j \in 1..Len(db_rows) :
                                                      RowMatches(db_rows[j], f)}})
    IN  [logs |-> Slice(matching, (f.page - 1) * f.pageSize, f.page * f.pageSize),
         total |-> Len(matching)]

\* _deduplicate_logs: the first log of each (correlationId, timestamp) key
DedupKey(log) == <<log.correlationId, log.timestamp>>

RECURSIVE DedupLoop(_, _, _, _)
DedupLoop(logs, i, seen, unique_logs) ==
    IF i > Len(logs) THEN unique_logs
    ELSE IF DedupKey(logs[i]) \notin seen
         THEN DedupLoop(logs, i + 1, seen \cup {DedupKey(logs[i])},
                        Append(unique_logs, logs[i]))
         ELSE DedupLoop(logs, i + 1, seen, unique_logs)

deduplicate_logs(logs) == DedupLoop(logs, 1, {}, <<>>)

\* list.sort(key = timestamp string, reverse = True): descending, and logs of
\* equal key stay in the order they had
RECURSIVE InsertByTimestamp(_, _)
InsertByTimestamp(sorted, log) ==
    IF sorted = <<>> THEN <<log>>
    ELSE IF StringKey(Head(sorted).timestamp) >= StringKey(log.timestamp)
         THEN <<Head(sorted)>> \o InsertByTimestamp(Tail(sorted), log)
         ELSE <<log>> \o sorted

RECURSIVE SortLoop(_, _, _)
SortLoop(logs, i, sorted) ==
    IF i > Len(logs) THEN sorted
    ELSE SortLoop(logs, i + 1, InsertByTimestamp(sorted, logs[i]))

\* a sort that is descending and takes the logs last to first
sort_reversed_input(logs) ==
    SortLoop([i \in 1..Len(logs) |-> logs[Len(logs) + 1 - i]], 1, <<>>)

sort_by_timestamp(logs) == SortLoop(logs, 1, <<>>)

\* the pagination of get_logs
paginate(all_logs, f) ==
    Slice(all_logs, (f.page - 1) * f.pageSize, (f.page - 1) * f.pageSize + f.pageSize)

\* what get_logs merges: the logs of the tiers it consults, files first
merge_tiers(f, files_asked, db_asked, now) ==
    LET file_logs == IF files_asked THEN query_files(f, now)
                     ELSE [raised |-> FALSE, logs |-> <<>>]
        db_logs == IF db_asked THEN get_logs_with_filter(f).logs ELSE <<>>
    IN  [raised |-> file_logs.raised,
         logs |-> file_logs.logs \o [i \in 1..Len(db_logs) |-> db_to_dict(db_logs[i])]]

\* what get_logs computes on a miss of the query cache; now1, now2 and now3 are
\* what datetime.now() returns in _should_query_files, in
\* _should_query_database and in _parse_timestamp
fetch_logs(f, now1, now2, now3) ==
    LET files_asked == should_query_files(f, now1)
        db_asked == should_query_database(f, now2)
        merged == merge_tiers(f, files_asked, db_asked, now3)
        all_logs == sort_by_timestamp(deduplicate_logs(merged.logs))
    IN  [filter |-> f, files |-> files_asked, db |-> db_asked,
         now1 |-> now1, now2 |-> now2, now3 |-> now3,
         raised |-> merged.raised,
         logs |-> IF merged.raised THEN <<>> ELSE paginate(all_logs, f),
         total |-> IF merged.raised THEN 0 ELSE Len(all_logs),
         from_cache |-> FALSE]

\* get_logs on a miss of the query cache
get_logs(page, pageSize) ==
    /\ Len(returned) < MaxQueries
    /\ \E now1 \in {clock}, now2 \in clock..MaxClock, now3 \in clock..MaxClock :
          /\ now2 <= now3
          /\ \E r \in {fetch_logs([filter EXCEPT !.page = page, !.pageSize = pageSize],
                                  now1, now2, now3)} :
                returned' = Append(returned, r)
          /\ clock' = now3
    /\ UNCHANGED <<file_entries, db_rows, filter, socket_vars, stats_vars, hot_vars,
                   tailer_vars>>

\* ------------------------------------------- CacheManager: the other methods
\* "no record": None
None == [ok |-> FALSE]

\* get_log: json.loads of the value under the key; None when there is no such
\* key and when the store cannot be reached
get_log(store, correlation_id) ==
    IF redis_up /\ correlation_id \in DOMAIN store THEN store[correlation_id] ELSE None

\* a get_logs_by_pattern that answers from the last reply when the store is gone
get_logs_by_pattern_stale(store, keys) == [n \in 1..Len(keys) |-> store[keys[n]]]

\* get_logs_by_pattern("log:*"): the values of the keys, in the order in which
\* redis.keys returned them; [] when the store cannot be reached
get_logs_by_pattern(store, keys) ==
    IF redis_up THEN [n \in 1..Len(keys) |-> store[keys[n]]] ELSE <<>>

\* the loop of search_logs: matching logs are collected until there are limit
RECURSIVE SearchLoop(_, _, _, _, _, _)
SearchLoop(all_logs, n, api_name, log_level, limit, filtered_logs) ==
    IF n > Len(all_logs) THEN filtered_logs
    ELSE LET log == all_logs[n]
             match == /\ api_name = "" \/ log.apiName = api_name
                      /\ log_level = "" \/ log.logLevel = log_level
             found == IF match THEN Append(filtered_logs, log) ELSE filtered_logs
         IN  IF Len(found) >= limit THEN found
             ELSE SearchLoop(all_logs, n + 1, api_name, log_level, limit, found)

\* search_logs(api_name, log_level, limit) over the keys as redis.keys gave them
search_logs(store, keys, api_name, log_level, limit) ==
    LET filtered_logs == SearchLoop(get_logs_by_pattern(store, keys), 1, api_name,
                                    log_level, limit, <<>>)
    IN  Slice(sort_by_timestamp(filtered_logs), 0, limit)

\* delete_log: the key is gone, if the store can be reached
delete_log(store, correlation_id) ==
    IF redis_up THEN DictDel(store, correlation_id) ELSE store

\* get_total_logs: len(redis.keys("log:*")); 0 when the store cannot be reached
get_total_logs(store) == IF redis_up THEN Cardinality(DOMAIN store) ELSE 0

\* the orders in which redis.keys can return the keys of the store
KeyOrders(store) ==
    { keys \in [1..Cardinality(DOMAIN store) -> DOMAIN store] :
         \A m, n \in 1..Cardinality(DOMAIN store) : m # n => keys[m] # keys[n] }

\* -------------------------------------------------------- WebSocketManager
ConnNames == <<"A", "B", "C", "D">>
Conns == { ConnNames[n] : n \in 1..MaxConns }
\* the websockets whose handlers are followed
Subscribers == { ConnNames[n] : n \in 1..MaxSubscribers }
Outcomes == {"ok", "fail"}

\* the log_data of the n-th broadcast_log call
LogData(n) == [id |-> n, logLevel |-> IF n % 2 = 1 THEN "ERROR" ELSE "INFO"]

SeqToSet(seq) == { seq[n] : n \in 1..Len(seq) }

\* WebSocketManager.connect, for a websocket that was never connected
connect(c) ==
    /\ c \notin DOMAIN sends
    /\ active_connections' = Append(active_connections, c)
    /\ sends' = sends @@ (c :> <<>>)
    /\ received' = received @@ (c :> <<>>)
    /\ UNCHANGED <<broadcasts, published, stats_vars, hot_vars, query_vars, tailer_vars>>

\* list.remove of the connections that are in the list
remove_connections(conns, gone) == SelectSeq(conns, LAMBDA c : c \notin gone)

\* WebSocketManager.disconnect, called by websocket_logs when the client is gone
disconnect(c) ==
    /\ c \in SeqToSet(active_connections)
    /\ active_connections' = remove_connections(active_connections, {c})
    /\ UNCHANGED <<broadcasts, received, sends, published, stats_vars, hot_vars,
                   query_vars, tailer_vars>>

\* a loop that leaves out the last connection of the list
has_next_but_last(co) == co.i < Len(active_connections) - 1

\* a loop that ends at the first send that fails
has_next_until_failure(co) == co.i < Len(active_connections) /\ co.disconnected = <<>>

\* the iterator of 'for connection in self.active_connections' has a next item
has_next(co) == co.i < Len(active_connections)

\* a removal that waits for two failed sends in a row
remove_after_two_failures(disconnected) ==
    remove_connections(active_connections,
        { c \in SeqToSet(disconnected) :
             /\ Len(sends[c]) >= 2
             /\ sends[c][Len(sends[c])] = "fail"
             /\ sends[c][Len(sends[c]) - 1] = "fail" })

\* 'for conn in disconnected: self.disconnect(conn)'
remove_disconnected(disconnected) ==
    remove_connections(active_connections, SeqToSet(disconnected))

\* broadcast_log from the head of its loop to its next await, or to its end:
\* the next connection of the live list is sent the message (the send fails or
\* not), or the loop is over and the connections whose send failed are removed
Iterate(base, k, outcome) ==
    LET co == base[k]
    IN  IF has_next(co)
        THEN LET connection == active_connections[co.i + 1]
             IN  /\ broadcasts' =
                       [base EXCEPT ![k] =
                           [co EXCEPT !.i = co.i + 1,
                                      !.sent = @ \cup {connection},
                                      !.disconnected = IF outcome = "fail"
                                                       THEN Append(@, connection)
                                                       ELSE @]]
                 /\ sends' = [sends EXCEPT ![connection] = Append(@, outcome)]
                 /\ received' = IF outcome = "ok"
                                THEN [received EXCEPT ![connection] = Append(@, co.msg.id)]
                                ELSE received
                 /\ UNCHANGED active_connections
        ELSE /\ active_connections' = remove_disconnected(co.disconnected)
             /\ broadcasts' =
                   [base EXCEPT ![k] =
                       [co EXCEPT !.pc = "done",
                                  !.removed = SeqToSet(co.disconnected)
                                                 \cap SeqToSet(active_connections)]]
             /\ UNCHANGED <<received, sends>>

\* an _update_stats that counts the record in total_logs alone
update_stats_total_only(stats, log_data) == [stats EXCEPT !.total_logs = @ + 1]

\* _update_stats: the rolling counters (success_rate follows from them)
update_stats(stats, log_data) ==
    [total_logs |-> stats.total_logs + 1,
     success_logs |-> stats.success_logs + (IF log_data.logLevel = "ERROR" THEN 0 ELSE 1),
     error_logs |-> stats.error_logs + (IF log_data.logLevel = "ERROR" THEN 1 ELSE 0)]

\* broadcast_log(log_data), up to its first await
BroadcastLog(log_data) ==
    /\ Len(broadcasts) < MaxBroadcasts
    /\ \E outcome \in Outcomes :
          Iterate(Append(broadcasts,
                         [msg |-> log_data, i |-> 0,
                          disconnected |-> <<>>, pc |-> "sending",
                          at_start |-> SeqToSet(active_connections),
                          sent |-> {}, removed |-> {}]),
                  Len(broadcasts) + 1, outcome)
    /\ published' = Append(published, log_data)
    /\ stats_cache' = update_stats(stats_cache, log_data)
    /\ UNCHANGED <<replies, hot_vars, query_vars>>

\* a call of WebSocketManager.broadcast_log, up to its first await
broadcast_log ==
    /\ BroadcastLog(LogData(Len(published) + 1))
    /\ UNCHANGED tailer_vars

\* _parse_and_cache_logs for one parsed log, with the websocket manager set:
\* set_log under the log's correlation id, then broadcast_log
cache_and_broadcast(correlation_id, log_level) ==
    \E log_data \in {[id |-> Len(published) + 1, correlationId |-> correlation_id,
                       logLevel |-> log_level]} :
        /\ BroadcastLog(log_data)
        /\ redis' = set_log(redis, correlation_id, log_data)
        /\ UNCHANGED <<redis_up, log_entries, writer_vars, watcher_vars, delivered,
                       ghost_vars>>

\* the messages a client sends: JSON objects with one member
ControlMessages ==
    { [key |-> "type", value |-> "ping"], [key |-> "type", value |-> "request_stats"],
      [key |-> "action", value |-> "ping"], [key |-> "action", value |-> "subscribe"],
      [key |-> "action", value |-> "unsubscribe"] }

\* a handler that reads the member "action"
MessageType_action(message) == IF message.key = "action" THEN message.value ELSE ""

\* message.get("type")
MessageType(message) == IF message.key = "type" THEN message.value ELSE ""

\* ghost: the messages received and the timeouts of the handlers so far
Received(log) == SelectSeq(log, LAMBDA e : e.dir # "out")

\* the stats that broadcast_stats recalculates from the logs of the cache
stats_from_cache(cache_logs) ==
    LET errors == Cardinality({n \in 1..Len(cache_logs) : cache_logs[n].logLevel = "ERROR"})
    IN  [total_logs |-> Len(cache_logs), success_logs |-> Len(cache_logs) - errors,
         error_logs |-> errors]

\* the stats_update messages of one broadcast_stats, in the order of the list
StatsMessages(conns, stats, outcomes) ==
    [n \in 1..Len(conns) |->
        [dir |-> "out", conn |-> conns[n], outcome |-> outcomes[conns[n]],
         published |-> Len(published),
         message |-> [type |-> "stats_update", stats |-> stats]]]

\* broadcast_stats, its sends taken in one step: the stats are recalculated
\* from the hot store and replace stats_cache, every connection is sent them,
\* and the connections whose send failed are removed
broadcast_stats(log) ==
    \E keys \in KeyOrders(redis) :
    \E outcomes \in [SeqToSet(active_connections) -> Outcomes] :
        /\ stats_cache' = stats_from_cache(get_logs_by_pattern(redis, keys))
        /\ replies' = log \o StatsMessages(active_connections, stats_cache', outcomes)
        /\ active_connections' =
              remove_connections(active_connections,
                                 {c \in SeqToSet(active_connections) : outcomes[c] = "fail"})

\* websocket_logs: receive_text returns the client's message
receive_text(c, message) ==
    /\ c \in SeqToSet(active_connections)
    /\ Len(Received(replies)) < MaxMessages
    /\ \E log \in {Append(replies, [dir |-> "in", conn |-> c, message |-> message])} :
          IF MessageType(message) = "ping"
          THEN \E outcome \in Outcomes :
                  /\ replies' = Append(log, [dir |-> "out", conn |-> c, outcome |-> outcome,
                                             published |-> Len(published),
                                             message |-> [type |-> "pong"]])
                  /\ active_connections' =
                        IF outcome = "fail" THEN remove_connections(active_connections, {c})
                        ELSE active_connections
                  /\ UNCHANGED stats_cache
          ELSE IF MessageType(message) = "request_stats"
          THEN broadcast_stats(log)
          ELSE /\ replies' = log
               /\ UNCHANGED <<active_connections, stats_cache>>
    /\ UNCHANGED <<broadcasts, received, sends, published, hot_vars, query_vars,
                   tailer_vars>>

\* websocket_logs: no message for two seconds, the stats heartbeat
receive_timeout(c) ==
    /\ c \in SeqToSet(active_connections)
    /\ Len(Received(replies)) < MaxMessages
    /\ broadcast_stats(Append(replies, [dir |-> "timeout", conn |-> c]))
    /\ UNCHANGED <<broadcasts, received, sends, published, hot_vars, query_vars,
                   tailer_vars>>

\* 'await connection.send_json(message)' returns or raises in broadcast k
send_json_returns(k) ==
    /\ k \in 1..Len(broadcasts)
    /\ broadcasts[k].pc = "sending"
    /\ \E outcome \in Outcomes : Iterate(broadcasts, k, outcome)
    /\ UNCHANGED <<published, stats_vars, hot_vars, query_vars, tailer_vars>>

\* ------------------------------------------------- the inputs of the queries
\* the wall clock when the queries start
StartClock == 4

\* LogEntry values parsed from the recent files
HotEntry(cid, ts, level, api) ==
    [correlationId |-> cid, timestamp |-> ts, logLevel |-> level, apiName |-> api,
     serviceName |-> "svc", sessionId |-> "s1"]

HotEntries ==
    { HotEntry("a", Timestamp(3, "+02:00"), "ERROR", "X"),
      HotEntry("b", Timestamp(3, "+02:00"), "INFO", "X"),
      HotEntry("c", BadTimestamp, "ERROR", "Y"),
      HotEntry("d", Timestamp(1, ""), "INFO", "Y") }

\* rows of log_entries, less their id
ColdRow(cid, t, level, api) ==
    [correlation_id |-> cid, timestamp |-> t, log_level |-> level, api_name |-> api,
     service_name |-> "svc", session_id |-> "s1", has_error |-> "False"]

ColdRows ==
    { ColdRow("a", 3, "ERROR", "X"),
      ColdRow("b", 3, "INFO", "X"),
      ColdRow("d", 1, "INFO", "Y") }

WithId(row, id) ==
    [id |-> id, correlation_id |-> row.correlation_id, timestamp |-> row.timestamp,
     log_level |-> row.log_level, api_name |-> row.api_name,
     service_name |-> row.service_name, session_id |-> row.session_id,
     has_error |-> row.has_error]

SeqsUpTo(S, n) == UNION { [1..m -> S] : m \in 0..n }

\* the filters of the queries: one constraint, or a date range
Filters ==
    { NoFilter,
      [NoFilter EXCEPT !.correlationId = "a"],
      [NoFilter EXCEPT !.apiName = "X"],
      [NoFilter EXCEPT !.logLevel = "ERROR"],
      [NoFilter EXCEPT !.hasError = "False"] }
    \cup { [NoFilter EXCEPT !.startDate = sd, !.endDate = ed] :
             sd \in {0, 1, 2, 3}, ed \in {0, 1, 2, 3} }

Pages == 1..2
PageSizes == 1..2

\* ------------------------------------------- CacheManager: the calls
\* the records the callers put in the hot store: the parsed entries, and a
\* later record of correlation id a
CacheLogs == HotEntries \cup { HotEntry("a", Timestamp(4, "+02:00"), "INFO", "X") }
CacheCids == { log.correlationId : log \in CacheLogs }

Called(call) ==
    /\ Len(cache_calls) < MaxCalls
    /\ cache_calls' = Append(cache_calls, call)

\* cache_manager.set_log(log_data['correlationId'], log_data)
SetLog(log_data) ==
    /\ Called([op |-> "set_log", cid |-> log_data.correlationId, log_data |-> log_data,
               result |-> redis_up, total_before |-> get_total_logs(redis),
               total_after |-> get_total_logs(set_log(redis, log_data.correlationId,
                                                      log_data))])
    /\ redis' = set_log(redis, log_data.correlationId, log_data)
    /\ UNCHANGED <<redis_up, log_entries, writer_vars, watcher_vars, delivered, ghost_vars,
                   query_vars, socket_vars, stats_vars>>

\* cache_manager.get_log(cid)
GetLog(cid) ==
    /\ Called([op |-> "get_log", cid |-> cid, up |-> redis_up,
               result |-> get_log(redis, cid)])
    /\ UNCHANGED <<store_vars, writer_vars, watcher_vars, delivered, ghost_vars,
                   query_vars, socket_vars, stats_vars>>

\* cache_manager.delete_log(cid)
DeleteLog(cid) ==
    /\ Called([op |-> "delete_log", cid |-> cid, result |-> redis_up])
    /\ redis' = delete_log(redis, cid)
    /\ UNCHANGED <<redis_up, log_entries, writer_vars, watcher_vars, delivered, ghost_vars,
                   query_vars, socket_vars, stats_vars>>

\* cache_manager.get_total_logs()
GetTotalLogs ==
    /\ Called([op |-> "get_total_logs", result |-> get_total_logs(redis)])
    /\ UNCHANGED <<store_vars, writer_vars, watcher_vars, delivered, ghost_vars,
                   query_vars, socket_vars, stats_vars>>

\* cache_manager.search_logs(api_name=..., log_level=..., limit=...)
SearchLogs(api_name, log_level, limit) ==
    /\ \E keys \in KeyOrders(redis) :
          Called([op |-> "search_logs", api_name |-> api_name, log_level |-> log_level,
                  limit |-> limit, keys |-> keys, up |-> redis_up, store |-> redis,
                  result |-> search_logs(redis, keys, api_name, log_level, limit)])
    /\ UNCHANGED <<store_vars, writer_vars, watcher_vars, delivered, ghost_vars,
                   query_vars, socket_vars, stats_vars>>

\* the time to live of a key (setex) runs out
Expire(cid) ==
    /\ cid \in DOMAIN redis
    /\ Called([op |-> "expire", cid |-> cid])
    /\ redis' = DictDel(redis, cid)
    /\ UNCHANGED <<redis_up, log_entries, writer_vars, watcher_vars, delivered, ghost_vars,
                   query_vars, socket_vars, stats_vars>>

\* ------------------------------------------------- lookups by correlation id
\* list.sort(key = timestamp string): ascending, logs of equal key stay in order
RECURSIVE InsertAscending(_, _)
InsertAscending(sorted, log) ==
    IF sorted = <<>> THEN <<log>>
    ELSE IF StringKey(Head(sorted).timestamp) <= StringKey(log.timestamp)
         THEN <<Head(sorted)>> \o InsertAscending(Tail(sorted), log)
         ELSE <<log>> \o sorted

RECURSIVE SortAscending(_, _, _)
SortAscending(logs, i, sorted) ==
    IF i > Len(logs) THEN sorted
    ELSE SortAscending(logs, i + 1, InsertAscending(sorted, logs[i]))

\* _query_files_by_correlation_id over the entries parsed from the recent files
query_files_by_correlation_id(correlation_id) ==
    LET filtered == SelectSeq(file_entries, LAMBDA e : e.correlationId = correlation_id)
    IN  [i \in 1..Len(filtered) |-> EntryDict(filtered[i])]

\* LogRepository.get_logs_by_correlation_id: the rows of the correlation id
repository_logs_by_correlation_id(correlation_id) ==
    SelectSeq(db_rows, LAMBDA row : row.correlation_id = correlation_id)

\* QueryEngine.get_logs_by_correlation_id on a miss of the query cache
get_logs_by_correlation_id(correlation_id) ==
    /\ Len(returned) < MaxQueries
    /\ \E file_logs \in {query_files_by_correlation_id(correlation_id)},
          db_logs \in {repository_logs_by_correlation_id(correlation_id)} :
       \E all_logs \in {deduplicate_logs(
                            file_logs \o [i \in 1..Len(db_logs) |-> db_to_dict(db_logs[i])])} :
          returned' = Append(returned,
                             [op |-> "get_logs_by_correlation_id", cid |-> correlation_id,
                              hot_logs |-> file_logs, cold |-> TRUE,
                              logs |-> SortAscending(all_logs, 1, <<>>)])
    /\ UNCHANGED <<file_entries, db_rows, filter, clock, socket_vars, stats_vars, hot_vars,
                   tailer_vars>>

\* query_engine.query_logs(db, LogFilter(correlation_id=..., limit=1)): LogFilter
\* has no field correlation_id and no field limit, the filter it gets asks for
\* the first page of all the logs
query_logs(now) ==
    LET merged == merge_tiers(NoFilter, TRUE, TRUE, now)
    IN  sort_by_timestamp(deduplicate_logs(merged.logs))

\* GET /details/{correlation_id}: the hot store first, then the query
get_log_details(correlation_id) ==
    /\ Len(returned) < MaxQueries
    /\ \E log \in {get_log(redis, correlation_id)} :
          IF log # None
          THEN returned' = Append(returned,
                                  [op |-> "get_log_details", cid |-> correlation_id,
                                   hot_logs |-> <<log>>, cold |-> FALSE, logs |-> <<log>>])
          ELSE \E result \in {query_logs(clock)} :
                  returned' = Append(returned,
                                     [op |-> "get_log_details", cid |-> correlation_id,
                                      hot_logs |-> <<>>, cold |-> TRUE,
                                      logs |-> Slice(result, 0, 1)])
    /\ UNCHANGED <<file_entries, db_rows, filter, clock, socket_vars, stats_vars, hot_vars,
                   tailer_vars>>

\* --------------------------------------------------------------------- Init
NoQueries ==
    /\ file_entries = <<>>
    /\ db_rows = <<>>
    /\ filter = NoFilter
    /\ clock = StartClock
    /\ returned = <<>>

NoSockets ==
    /\ active_connections = <<>>
    /\ broadcasts = <<>>
    /\ received = EmptyDict
    /\ sends = EmptyDict
    /\ published = <<>>
    /\ stats_cache = [total_logs |-> 0, success_logs |-> 0, error_logs |-> 0]
    /\ replies = <<>>

Init == TailerInit /\ NoQueries /\ NoSockets

\* the query engine over data at rest: some entries in the recent files, some
\* rows in the table, one filter
InitQuery ==
    /\ TailerInit
    /\ NoSockets
    /\ file_entries \in SeqsUpTo(HotEntries, MaxHot)
    /\ \E rows \in SeqsUpTo(ColdRows, MaxCold) :
          db_rows = [i \in 1..Len(rows) |-> WithId(rows[i], i)]
    /\ filter \in { f \in Filters : f.startDate = 0 \/ f.endDate = 0
                                        \/ f.startDate <= f.endDate }
    /\ clock = StartClock
    /\ returned = <<>>

NextQuery == \E page \in Pages, pageSize \in PageSizes : get_logs(page, pageSize)

SpecQuery == InitQuery /\ [][NextQuery]_vars

\* ------------------------------------------------ the query-result cache
\* cache_manager.get(cache_key): the value cache_manager.set stored under the
\* key of the filter, while its ttl of 60 seconds lasts.  A tick is longer than
\* the ttl: a value set at an earlier tick has expired.
query_cache_get(key, now) ==
    LET set_at == {q \in 1..Len(returned) :
                     /\ returned[q].filter = key
                     /\ ~returned[q].from_cache
                     /\ ~returned[q].raised
                     /\ returned[q].now3 = now}
    IN  IF set_at = {} THEN None
        ELSE returned[CHOOSE q \in set_at : \A j \in set_at : j <= q]

\* get_logs: the cached result when the query cache holds one, and the result
\* of the tiers otherwise (the value may have expired within the tick).  Ghost:
\* logs_now and total_now, what the same computation gives over the tiers as
\* they are at the time of the call.
get_logs_through_cache(page, pageSize) ==
    \E cached \in {query_cache_get([filter EXCEPT !.page = page, !.pageSize = pageSize],
                                    clock)} :
        \/ /\ cached # None
           /\ Len(returned) < MaxQueries
           /\ \E now_logs \in {fetch_logs(cached.filter, cached.now1, cached.now2,
                                              cached.now3)} :
                 returned' = Append(returned,
                                    [filter |-> cached.filter, files |-> cached.files,
                                     db |-> cached.db, now1 |-> cached.now1,
                                     now2 |-> cached.now2, now3 |-> cached.now3,
                                     raised |-> FALSE, logs |-> cached.logs,
                                     total |-> cached.total, from_cache |-> TRUE,
                                     logs_now |-> now_logs.logs,
                                     total_now |-> now_logs.total])
           /\ UNCHANGED <<file_entries, db_rows, filter, clock, socket_vars, stats_vars,
                          hot_vars, tailer_vars>>
        \/ get_logs(page, pageSize)

\* _parse_and_cache_logs for one record appended to a recent file: the record
\* is put in the hot store, and the file holds it from now on
parse_and_cache_entry(e) ==
    /\ Len(file_entries) < MaxHot
    /\ file_entries' = Append(file_entries, e)
    /\ redis' = set_log(redis, e.correlationId, e)
    /\ UNCHANGED <<db_rows, filter, clock, returned, socket_vars, stats_vars, hot_vars,
                   writer_vars, watcher_vars, redis_up, log_entries, delivered,
                   ghost_vars>>

\* the query engine with its result cache, while records are ingested
NextFresh ==
    \/ \E page \in Pages, pageSize \in PageSizes : get_logs_through_cache(page, pageSize)
    \/ \E e \in HotEntries : parse_and_cache_entry(e)

\* some entries in the recent files, at most one row in the table, a filter
\* with no end date
InitFresh == InitQuery /\ Len(db_rows) <= 1 /\ filter.endDate = 0

SpecFresh == InitFresh /\ [][NextFresh]_vars

\* lookups by correlation id over the two tiers and the hot store
InitLookup == InitQuery /\ filter = NoFilter

\* the correlation ids that are looked up
LookupCids == {"a", "b"}

NextLookup ==
    \/ \E log_data \in {log \in CacheLogs : log.correlationId \in LookupCids} :
          SetLog(log_data)
    \/ \E correlation_id \in LookupCids : get_logs_by_correlation_id(correlation_id)
    \/ \E correlation_id \in LookupCids : get_log_details(correlation_id)

SpecLookup == InitLookup /\ [][NextLookup]_vars

\* ------------------------------------------------ the dashboard statistics
\* a datetime of a request: the tick, and whether it carries a time zone
Date(t, aware) == [given |-> TRUE, t |-> t, aware |-> aware]
NoDate == [given |-> FALSE, t |-> 0, aware |-> FALSE]

\* 'Default to last 7 days if no date range provided'
days_by_default == 7
default_range(start_date, end_date, now) ==
    LET end == IF end_date.given THEN end_date ELSE Date(now, FALSE)
    IN  [start |-> IF start_date.given THEN start_date
                   ELSE Date(end.t - days_by_default, end.aware),
         end |-> end]

\* datetime.fromisoformat of a timestamp string: raises on text that is no
\* timestamp; the datetime is aware iff the string carries an offset
fromisoformat(ts) == [ok |-> ts.offset # "?", t |-> ts.t, aware |-> ts.offset # ""]

\* the body of 'for log in all_logs' reaches filtered_logs.append(log): the
\* timestamp parses, start_date <= log_time <= end_date raises nothing (a naive
\* and an aware datetime do not compare: TypeError, caught, continue) and is
\* true, and the names match
counted(log, range, api_name, service_name) ==
    LET log_time == fromisoformat(log.timestamp)
    IN  /\ log_time.ok
        /\ range.start.aware = log_time.aware
        /\ range.start.t <= log_time.t
        /\ log_time.aware = range.end.aware
        /\ log_time.t <= range.end.t
        /\ api_name = "" \/ log.apiName = api_name
        /\ service_name = "" \/ log.serviceName = service_name

\* LogRepository.get_logs_by_filter(db, start_date=..., end_date=..., ...): the
\* dicts of the rows in the range, the newest first
get_logs_by_filter(range, api_name, service_name) ==
    LET rows == OrderRows({db_rows[i] : i \in {j \in 1..Len(db_rows) :
                    /\ db_rows[j].timestamp >= range.start.t
                    /\ db_rows[j].timestamp <= range.end.t
                    /\ api_name = "" \/ db_rows[j].api_name = api_name
                    /\ service_name = "" \/ db_rows[j].service_name = service_name}})
    IN  [n \in 1..Len(rows) |->
            [correlationId |-> rows[n].correlation_id,
             timestamp |-> isoformat(rows[n].timestamp), logLevel |-> rows[n].log_level,
             apiName |-> rows[n].api_name, serviceName |-> rows[n].service_name,
             sessionId |-> rows[n].session_id]]

\* GET /api/analytics/stats
get_dashboard_stats(start_date, end_date, api_name, service_name) ==
    /\ Len(returned) < MaxQueries
    /\ \E range \in {default_range(start_date, end_date, clock)},
          keys \in KeyOrders(redis) :
       \E cache_logs \in {get_logs_by_pattern(redis, keys)},
          db_logs \in {get_logs_by_filter(range, api_name, service_name)} :
       \E filtered_logs \in {SelectSeq(cache_logs \o db_logs,
                                        LAMBDA log : counted(log, range, api_name,
                                                             service_name))} :
       \E error_logs \in {Cardinality({n \in 1..Len(filtered_logs) :
                                          filtered_logs[n].logLevel = "ERROR"})} :
          returned' = Append(returned,
                             [op |-> "get_dashboard_stats", range |-> range,
                              api_name |-> api_name, service_name |-> service_name,
                              cache_logs |-> cache_logs, db_logs |-> db_logs,
                              total_logs |-> Len(filtered_logs),
                              success_logs |-> Len(filtered_logs) - error_logs,
                              error_logs |-> error_logs])
    /\ UNCHANGED <<file_entries, db_rows, filter, clock, socket_vars, stats_vars, hot_vars,
                   tailer_vars>>

\* the date ranges of the requests: none, naive datetimes, aware datetimes
StartDates == {NoDate, Date(1, FALSE), Date(1, TRUE)}
EndDates == {NoDate, Date(4, FALSE), Date(4, TRUE)}

\* the records the tailer puts in the hot store
StatsLogs == {log \in CacheLogs : log.correlationId \in {"a", "d"}}

\* the dashboard over a table that holds some rows and a hot store that fills
InitStats ==
    /\ TailerInit
    /\ NoSockets
    /\ file_entries = <<>>
    /\ \E rows \in SeqsUpTo(ColdRows, MaxCold) :
          db_rows = [i \in 1..Len(rows) |-> WithId(rows[i], i)]
    /\ filter = NoFilter
    /\ clock = StartClock
    /\ returned = <<>>

NextStats ==
    \/ \E log_data \in StatsLogs : SetLog(log_data)
    \/ \E start_date \in StartDates, end_date \in EndDates, api_name \in {"", "X"} :
          get_dashboard_stats(start_date, end_date, api_name, "")

SpecStats == InitStats /\ [][NextStats]_vars

\* the broadcaster: clients connect and go, broadcast_log calls overlap
NextBroadcast ==
    \/ \E c \in Conns : connect(c)
    \/ \E c \in Conns : disconnect(c)
    \/ broadcast_log
    \/ \E k \in 1..MaxBroadcasts : send_json_returns(k)

SpecBroadcast == Init /\ [][NextBroadcast]_vars

\* the broadcaster with its clients' handlers: the tailer caches and publishes
\* records, clients send control messages, the heartbeat sends the stats
NextControl ==
    \/ \E c \in Subscribers : connect(c)
    \/ \E correlation_id \in {"a", "b"}, log_level \in {"ERROR", "INFO"} :
          cache_and_broadcast(correlation_id, log_level)
    \/ \E k \in 1..MaxBroadcasts : send_json_returns(k)
    \/ \E c \in Subscribers, message \in ControlMessages : receive_text(c, message)
    \/ \E c \in Subscribers : receive_timeout(c)

SpecControl == Init /\ [][NextControl]_vars

\* the frame with body b that is the k-th of its file
FrameOf(k, b) ==
    Marker(CidOf(k)) \o <<"\n">> \o b \o <<"\n">> \o Marker(CidOf(k)) \o <<"\n">>

\* the bodies of the frames: objects with all the fields, objects that lack
\* some, a JSON text that is cut short, and no text at all
ParseBodies ==
    {Body(k) : k \in 1..MaxParseFrames} \cup {<<"{", v, "}">> : v \in VariantToks}
        \cup {<<"{", "p1">>, <<>>}

RECURSIVE Content(_, _)
Content(bodies, k) ==
    IF k > Len(bodies) THEN <<>> ELSE FrameOf(k, bodies[k]) \o Content(bodies, k + 1)

\* a running tailer finds a file of complete frames it has not seen
TailerFinds(inputs, attached) ==
    /\ \E bodies \in inputs :
          /\ files = [f \in {"f1"} |-> Content(bodies, 1)]
          /\ frames = [k \in 1..Len(bodies) |->
                          [kind |-> "full", file |-> "f1",
                           start |-> Len(Content(SubSeq(bodies, 1, k - 1), 1)),
                           gen |-> 0, tailed |-> TRUE, partial_pass |-> FALSE,
                           body |-> bodies[k]]]
    /\ widx = 0
    /\ truncs = 0
    /\ observer = "started"
    /\ file_positions = EmptyDict
    /\ incomplete_logs = EmptyDict
    /\ active_files = {}
    /\ websocket_manager = attached
    /\ tasks = [t \in TaskIds |-> IdleTask]
    /\ redis = EmptyDict
    /\ redis_up = TRUE
    /\ log_entries = <<>>
    /\ delivered = <<>>
    /\ restarts = 0
    /\ scans = 0
    /\ stopped_positions = EmptyDict
    /\ cache_calls = <<>>
    /\ NoQueries
    /\ NoSockets

InitParse == TailerFinds(SeqsUpTo(ParseBodies, MaxParseFrames) \ {<<>>}, FALSE)

NextParse ==
    \/ AttachWebSocketManager
    \/ \E f \in Files, t \in TaskIds : process_file(f, t)
    \/ \E t \in TaskIds : Resume(t)

SpecParse == InitParse /\ [][NextParse]_vars

\* the message broadcast for the n-th delivered record
DeliveredLog(n) ==
    [id |-> n, correlationId |-> delivered[n].log.correlationId,
     payload |-> delivered[n].log.payload,
     logLevel |-> IF delivered[n].log.payload = "p1" THEN "ERROR" ELSE "INFO"]

\* 'await self.websocket_manager.broadcast_log(log_data)' of the coroutine that
\* is suspended in _parse_and_cache_logs: broadcast_log runs to its first await
await_broadcast_log(t) ==
    /\ tasks[t].kind # "idle"
    /\ Len(published) < Len(delivered)
    /\ BroadcastLog(DeliveredLog(Len(published) + 1))
    /\ UNCHANGED tailer_vars

\* broadcast_log has returned: the coroutine goes on after its await
broadcast_log_returns(t) ==
    /\ Len(published) = Len(delivered)
    /\ Len(broadcasts) > 0
    /\ broadcasts[Len(broadcasts)].pc = "done"
    /\ Resume(t)

\* a running tailer with the websocket manager set: one coroutine reads a file,
\* each record it parses is cached and broadcast to the clients connected
InitDeliver == TailerFinds(SeqsUpTo(ParseBodies, MaxBroadcasts) \ {<<>>}, TRUE)

NextDeliver ==
    \/ \E c \in Subscribers : connect(c)
    \/ process_file("f1", 1)
    \/ await_broadcast_log(1)
    \/ \E k \in 1..MaxBroadcasts : send_json_returns(k)
    \/ broadcast_log_returns(1)

SpecDeliver == InitDeliver /\ [][NextDeliver]_vars

\* a frame whose two markers carry the correlation id cid
FrameWith(cid, b) == Marker(cid) \o <<"\n">> \o b \o <<"\n">> \o Marker(cid) \o <<"\n">>

\* objects logged under one correlation id: one with the id of the markers as
\* its correlationId member, one with no such member
SharedCidBodies == {Body(1), <<"{", "no_correlationId", "}">>}

\* the message broadcast for the newest record of dl, delivered by coroutine t
TaskMessage(t, dl) ==
    [id |-> Len(dl), task |-> t, correlationId |-> dl[Len(dl)].log.correlationId,
     payload |-> dl[Len(dl)].log.payload,
     logLevel |-> IF dl[Len(dl)].log.payload = "p1" THEN "ERROR" ELSE "INFO"]

\* 'await self.websocket_manager.broadcast_log(log_data)': the coroutine that
\* has just cached a record enters broadcast_log, which runs to its first await
EnterBroadcast(t) ==
    IF tasks'[t].kind # "idle"
    THEN BroadcastLog(TaskMessage(t, delivered'))
    ELSE UNCHANGED <<socket_vars, stats_vars, hot_vars, query_vars>>

\* the broadcast_log call coroutine t awaits
BroadcastOf(t) ==
    CHOOSE k \in 1..Len(broadcasts) :
        /\ broadcasts[k].msg.task = t
        /\ \A j \in 1..Len(broadcasts) : broadcasts[j].msg.task = t => j <= k

\* a modify event of f: process_file up to the first await that suspends it
process_file_to_send(f, t) ==
    /\ ProcessFile(f, t)
    /\ EnterBroadcast(t)

\* broadcast_log has returned to the coroutine that awaits it: the coroutine
\* goes on to its next record, or ends
process_file_goes_on(t) ==
    /\ tasks[t].kind # "idle"
    /\ broadcasts[BroadcastOf(t)].pc = "done"
    /\ ResumeTask(t)
    /\ EnterBroadcast(t)

\* a running tailer with the websocket manager set finds two files; each holds
\* one frame, and the two frames carry the same correlation id
InitShared ==
    /\ \E b1, b2 \in SharedCidBodies :
          /\ files = [f \in {"f1", "f2"} |->
                         FrameWith(CidOf(1), IF f = "f1" THEN b1 ELSE b2)]
          /\ frames = [k \in 1..2 |->
                          [kind |-> "full", file |-> IF k = 1 THEN "f1" ELSE "f2",
                           start |-> 0, gen |-> 0, tailed |-> TRUE,
                           partial_pass |-> FALSE, body |-> IF k = 1 THEN b1 ELSE b2]]
    /\ widx = 0
    /\ truncs = 0
    /\ observer = "started"
    /\ file_positions = EmptyDict
    /\ incomplete_logs = EmptyDict
    /\ active_files = {}
    /\ websocket_manager = TRUE
    /\ tasks = [t \in TaskIds |-> IdleTask]
    /\ redis = EmptyDict
    /\ redis_up = TRUE
    /\ log_entries = <<>>
    /\ delivered = <<>>
    /\ restarts = 0
    /\ scans = 0
    /\ stopped_positions = EmptyDict
    /\ cache_calls = <<>>
    /\ NoQueries
    /\ NoSockets

\* the tailer over two files, with subscribers: modify events of the two files
\* start coroutines that cache and broadcast, the store comes and goes
NextShared ==
    \/ \E c \in Subscribers : connect(c)
    \/ \E f \in {"f1", "f2"}, t \in TaskIds : process_file_to_send(f, t)
    \/ \E k \in 1..MaxBroadcasts : send_json_returns(k)
    \/ \E t \in TaskIds : process_file_goes_on(t)
    \/ RedisDown
    \/ RedisUp

SpecShared == InitShared /\ [][NextShared]_vars

\* the hot store and its callers; the store comes and goes, keys expire
NextCache ==
    \/ \E log_data \in CacheLogs : SetLog(log_data)
    \/ \E cid \in CacheCids : GetLog(cid)
    \/ \E cid \in CacheCids : DeleteLog(cid)
    \/ GetTotalLogs
    \/ \E api_name \in {"", "X"}, log_level \in {"", "ERROR"}, limit \in 1..MaxLimit :
          SearchLogs(api_name, log_level, limit)
    \/ \E cid \in CacheCids : Expire(cid)
    \/ RedisDown
    \/ RedisUp

SpecCache == Init /\ [][NextCache]_vars

\* ------------------------------------------------------------ specification
\* the tailer, fed whole lines
Tailer ==
    \/ \E f \in Files : CreateFile(f)
    \/ \E f \in Files, kind \in Kinds : BeginFrame(f, kind)
    \/ AppendLine
    \/ \E f \in Files : Truncate(f)
    \/ start
    \/ AttachWebSocketManager
    \/ \E f \in Files, t \in TaskIds : process_file(f, t)
    \/ \E t \in TaskIds : Resume(t)

Next ==
    \/ Tailer
    \/ \E t \in TaskIds : scan_all_files(t)
    \/ Restart

Spec == Init /\ [][Next]_vars

\* the tailer with the two stores: the hot store may be unreachable, and
\* parsed records are inserted into the cold store
NextStore ==
    \/ Tailer
    \/ RedisDown
    \/ RedisUp
    \/ \E log_data \in ParsedLogs : insert_log(log_data)

SpecStore == Init /\ [][NextStore]_vars

\* the tailer, fed writes that end anywhere (inside a marker, a cid, the JSON)
NextChunks ==
    \/ \E f \in Files : CreateFile(f)
    \/ \E f \in Files, kind \in Kinds : BeginFrameToken(f, kind)
    \/ AppendToken
    \/ start
    \/ AttachWebSocketManager
    \/ \E f \in Files, t \in TaskIds : process_file(f, t)
    \/ \E t \in TaskIds : Resume(t)

SpecChunks == Init /\ [][NextChunks]_vars

\* ------------------------------------------------------ notions the claims use
\* the process_file coroutines in flight for f
Processing(f) == {t \in Running(f) : tasks[t].kind = "process"}
\* no coroutine is in flight and everything in f has been read
Quiescent(f) ==
    /\ observer = "started"
    /\ \A t \in TaskIds : tasks[t].kind = "idle"
    /\ f \in DOMAIN file_positions
    /\ file_positions[f] = Len(files[f])
\* frame k lies in its file as written: the file was not truncated since
InFile(k) == frames[k].gen = truncs
\* the records delivered with the payload of frame k
Deliveries(k) == {i \in 1..Len(delivered) : delivered[i].log.payload = PayloadNames[k]}
\* the offset just past the JSON of frame k
BodyEnd(k) == frames[k].start + Len(Marker(CidOf(k))) + 1 + Len(Body(k))
\* the file ends in a frame whose closing marker is not written (yet)
IncompleteTail(f) ==
    /\ Len(frames) > 0
    /\ frames[Len(frames)].file = f
    /\ InFile(Len(frames))
    /\ widx < Len(FrameToks(Len(frames), "full"))
\* a step in which the stored position of f is overwritten by a running watcher
PositionStored(f) ==
    /\ observer = "started"
    /\ f \in DOMAIN file_positions
    /\ f \in DOMAIN file_positions'
    /\ file_positions'[f] # file_positions[f]

\* ---------------------------------------------------------------------- C1
\* C1: across any interleaving of process_file invocations the stored position
\* of a file never decreases (the code detects no rotation, so never at all).
C1_PositionNeverDecreases ==
    [][\A f \in Files :
          (f \in DOMAIN file_positions /\ f \in DOMAIN file_positions')
              => file_positions'[f] >= file_positions[f]]_vars

\* ---------------------------------------------------------------------- C6
\* C6: for a single file no two executions of process_file overlap.
C6_NoOverlap == \A f \in Files : Cardinality(Processing(f)) <= 1

C3_IncompleteThenExactlyOnce ==
    \A k \in 1..Len(frames) :
        (/\ frames[k].kind = "full" /\ frames[k].tailed /\ frames[k].partial_pass
         /\ InFile(k) /\ restarts = 0 /\ scans = 0)
            => /\ ~FrameDone(k) => Deliveries(k) = {}
               /\ (FrameDone(k) /\ Quiescent(frames[k].file))
                      => Cardinality(Deliveries(k)) = 1

\* ---------------------------------------------------------------------- C4
\* C4 as stated: in every reachable state every delivered record was parsed from
\* bytes strictly before the stored position of its file.
C4_DeliveredBeforePosition ==
    \A i \in 1..Len(delivered) :
        LET k == PayloadIndex(delivered[i].log.payload)
            f == delivered[i].file
        IN  (InFile(k) /\ restarts = 0 /\ f \in DOMAIN file_positions)
                => BodyEnd(k) <= file_positions[f]

\* C4 as amended: every record a process_file execution delivers was parsed from
\* bytes before the end of that execution's read, which is the position the
\* execution stores when it finishes (scan_all_files stores no position).
C4_DeliveredWithinRead ==
    [][\A i \in (Len(delivered) + 1)..Len(delivered') :
          LET k == PayloadIndex(delivered'[i].log.payload)
              f == delivered'[i].file
          IN  InFile(k)
                  => \/ scans' # scans
                     \/ /\ tasks' = tasks
                        /\ BodyEnd(k) <= file_positions'[f]
                     \/ \E t \in TaskIds :
                           /\ tasks'[t] # tasks[t]
                           /\ LET tk == IF tasks[t].kind = "idle" THEN tasks'[t]
                                        ELSE tasks[t]
                              IN  \/ tk.kind = "scan"
                                  \/ /\ tk.kind = "process"
                                     /\ BodyEnd(k) <= tk.new_position
                                     /\ tasks'[t].kind = "idle"
                                           => file_positions'[f] = tk.new_position]_vars

\* a process_file execution is suspended between a delivery and its position
\* update: the delivered record lies beyond the stored position
C4_Witness ==
    \E i \in 1..Len(delivered) :
        LET k == PayloadIndex(delivered[i].log.payload)
            f == delivered[i].file
        IN  /\ InFile(k) /\ restarts = 0 /\ scans = 0
            /\ f \in DOMAIN file_positions
            /\ Processing(f) # {}
            /\ BodyEnd(k) > file_positions[f]

\* ---------------------------------------------------------------------- C5
\* the writer has written all it will write, every frame with both markers
WriterDone ==
    /\ Len(frames) = MaxFrames
    /\ WriterIdle
    /\ \A j \in 1..Len(frames) : frames[j].kind = "full"

\* C5: however the growth of the file is split across reads, every complete
\* valid frame of a file written entirely while it is tailed has been delivered
\* at least once by the time the writer is done and the tailer has read to the
\* end.
C5_CompleteFramesDelivered ==
    \A k \in 1..Len(frames) :
        (/\ WriterDone
         /\ \A j \in 1..Len(frames) : frames[j].tailed
         /\ Quiescent(frames[k].file))
            => Deliveries(k) # {}

\* ---------------------------------------------------------------------- C7
\* C7: every emitted record is enclosed by an opening and a closing marker that
\* carry the same correlation id.
C7_MarkersCarrySameCid ==
    \A i \in 1..Len(delivered) :
        /\ delivered[i].open # <<>>
        /\ delivered[i].open = delivered[i].close

\* ---------------------------------------------------------------------- C8
\* C8: when process_file runs on a file whose size is less than the stored
\* position (here: truncated, then written to again), the position is reset to
\* 0 and the content re-parsed, so the run leaves the position within the file.
C8_TruncationResetsPosition ==
    \A f \in Files :
        (/\ observer = "started"
         /\ f \in DOMAIN files /\ f \in DOMAIN file_positions
         /\ Len(files[f]) < file_positions[f]
         /\ \A t \in TaskIds : tasks[t].kind = "idle"
         /\ \E k \in 1..Len(frames) : frames[k].file = f /\ InFile(k))
            => ENABLED (\E t \in TaskIds :
                           /\ process_file(f, t)
                           /\ file_positions'[f] <= Len(files[f]))

\* ---------------------------------------------------------------------- C9
\* the step in which start() runs
Startup == observer = "none" /\ observer' = "started"

\* C9 as stated: on startup a file's position is the one stored by the previous
\* run, and a file with no stored position starts at offset 0.
C9_PositionsRestoredAtStartup ==
    [][Startup =>
          \A f \in DOMAIN files :
              /\ f \in DOMAIN file_positions'
              /\ file_positions'[f] = IF f \in DOMAIN stopped_positions
                                      THEN stopped_positions[f]
                                      ELSE 0]_vars

\* C9 as amended: on startup the position of every file that exists is its
\* size, whatever the previous run stored; only a file first seen after startup
\* is read from offset 0; and a frame begun while no tailer ran is never
\* delivered by process_file.
C9_StartupAtEndOfFile ==
    /\ [][/\ Startup =>
                file_positions' = [f \in DOMAIN files |-> Len(files[f])]
          /\ \A f \in Files :
                (/\ observer = "started" /\ f \in DOMAIN files
                 /\ f \notin DOMAIN file_positions /\ f \in DOMAIN file_positions')
                    => \/ file_positions'[f] = 0
                       \/ file_positions'[f] = Len(files[f])]_vars
    /\ [](\A k \in 1..Len(frames) :
             (~frames[k].tailed /\ scans = 0) => Deliveries(k) = {})

\* a restarted process has started on a file that grew by a complete frame
\* while no process ran: its position is the size of the file, not the position
\* the previous run stored
C9_Witness ==
    \E f \in DOMAIN files :
        /\ restarts > 0
        /\ observer = "started"
        /\ f \in DOMAIN stopped_positions
        /\ f \in DOMAIN file_positions
        /\ stopped_positions[f] < file_positions[f]
        /\ file_positions[f] = Len(files[f])
        /\ \E k \in 1..Len(frames) :
              /\ frames[k].file = f /\ frames[k].kind = "full" /\ FrameDone(k)
              /\ ~frames[k].tailed /\ InFile(k)
              /\ frames[k].start >= stopped_positions[f]
              /\ Deliveries(k) = {}

\* --------------------------------------------------------------------- C10
\* C10: however many times a frame is ingested, the cold store holds exactly
\* one record with its correlation id and the hot store exactly one entry.
C10_OneRecordPerCid ==
    /\ \A i \in 1..Len(log_entries) :
          Cardinality({j \in 1..Len(log_entries) :
                          log_entries[j].correlation_id = log_entries[i].correlation_id}) = 1
    /\ \A i \in 1..Len(delivered) :
          delivered[i].cached => delivered[i].log.correlationId \in DOMAIN redis

\* --------------------------------------------------------------------- C20
\* C20: within one file, records are put to the hot store and handed to the
\* broadcaster in the order of the file offsets of their frames: no record is
\* delivered after a record of a later frame of the same file.
C20_FileOffsetOrder ==
    \A i, j \in 1..Len(delivered) :
        LET ki == PayloadIndex(delivered[i].log.payload)
            kj == PayloadIndex(delivered[j].log.payload)
        IN  (/\ i < j
             /\ delivered[i].file = delivered[j].file
             /\ InFile(ki) /\ InFile(kj)
             /\ restarts = 0 /\ scans = 0)
                => frames[ki].start <= frames[kj].start

\* --------------------------------------------------------------------- C11
\* the correlation ids of the logs the hot tier gave to a recorded call
HotCids(r) ==
    LET hot == apply_filter_to_entries(file_entries, r.filter, r.now3).entries
    IN  { hot[i].correlationId : i \in 1..Len(hot) }

\* C11: the result of a query that consulted both tiers holds at most one
\* record per correlation id, and a record whose correlation id is in the hot
\* result is the hot copy, however the two copies render the timestamp.
C11_OneRecordPerCidHotPreferred ==
    \A q \in 1..Len(returned) :
        LET r == returned[q]
        IN  (r.files /\ r.db /\ ~r.raised) =>
               /\ \A i, j \in 1..Len(r.logs) :
                     i # j => r.logs[i].correlationId # r.logs[j].correlationId
               /\ \A i \in 1..Len(r.logs) :
                     r.logs[i].correlationId \in HotCids(r) => r.logs[i].id = 0

\* --------------------------------------------------------------------- C12
\* the merged list of a recorded call before it is sorted
MergedLogs(r) == deduplicate_logs(merge_tiers(r.filter, r.files, r.db, r.now3).logs)

\* where a log stands in the merged list
MergedIndex(r, log) ==
    CHOOSE k \in 1..Len(MergedLogs(r)) : MergedLogs(r)[k] = log

\* C12 as stated: a result is ordered by timestamp descending, and records of
\* equal timestamp by correlation id ascending.
C12_TimestampDescCidAsc ==
    \A q \in 1..Len(returned) :
        LET r == returned[q]
        IN  \A i, j \in 1..Len(r.logs) :
               i < j =>
                  \/ StringKey(r.logs[i].timestamp) > StringKey(r.logs[j].timestamp)
                  \/ /\ r.logs[i].timestamp = r.logs[j].timestamp
                     /\ CidRank(r.logs[i].correlationId) <= CidRank(r.logs[j].correlationId)

\* C12, amended: a result is ordered by timestamp string descending, and
\* records of equal timestamp string stand in the order of the merged list
\* (the hot records in file order, then the cold records as the table gave them).
C12_TimestampDescStable ==
    \A q \in 1..Len(returned) :
        LET r == returned[q]
        IN  ~r.raised =>
               \A i, j \in 1..Len(r.logs) :
                  i < j =>
                     \/ StringKey(r.logs[i].timestamp) > StringKey(r.logs[j].timestamp)
                     \/ /\ r.logs[i].timestamp = r.logs[j].timestamp
                        /\ MergedIndex(r, r.logs[i]) < MergedIndex(r, r.logs[j])

\* a result with two records of one timestamp, the later correlation id first
C12_Witness ==
    \E q \in 1..Len(returned) :
        /\ Len(returned[q].logs) = 2
        /\ returned[q].logs[1].timestamp = returned[q].logs[2].timestamp
        /\ CidRank(returned[q].logs[1].correlationId)
              > CidRank(returned[q].logs[2].correlationId)

\* --------------------------------------------------------------------- C13
\* the correlation ids that match the filter of a recorded call in the tiers
\* it consulted
MatchingCids(r) ==
    (IF r.files THEN HotCids(r) ELSE {})
        \cup (IF r.db
              THEN { db_rows[i].correlation_id :
                        i \in { j \in 1..Len(db_rows) : RowMatches(db_rows[j], r.filter) } }
              ELSE {})

\* C13: the total of a result is the number of distinct correlation ids that
\* match the filter in the tiers consulted, whatever the page and the page size.
C13_TotalIsDistinctCids ==
    \A q \in 1..Len(returned) :
        ~returned[q].raised =>
            returned[q].total = Cardinality(MatchingCids(returned[q]))

\* --------------------------------------------------------------------- C14
\* the full merged result of a recorded call: its filter over all the logs of
\* the tiers it consulted, deduplicated and sorted as get_logs does
FullResult(r) ==
    LET whole == [r.filter EXCEPT !.page = 1, !.pageSize = Len(db_rows) + 1]
    IN  sort_by_timestamp(deduplicate_logs(merge_tiers(whole, r.files, r.db, r.now3).logs))

\* C14: over unchanged data the pages of one filter are the consecutive slices
\* of one list, the full merged result: overlapping pages agree on the order of
\* the shared records, consecutive pages are disjoint and leave no gap.
C14_PagesEnumerateMergedResult ==
    \A q \in 1..Len(returned) :
        LET r == returned[q]
        IN  ~r.raised =>
               r.logs = Slice(FullResult(r), (r.filter.page - 1) * r.filter.pageSize,
                              r.filter.page * r.filter.pageSize)

\* --------------------------------------------------------------------- C15
\* the log level of a returned record (the dict of a row has none: its row's)
LevelOf(log) == IF log.id = 0 THEN log.logLevel ELSE db_rows[log.id].log_level

\* a returned record satisfies every constraint set in the filter
Satisfies(log, f) ==
    /\ f.correlationId = "" \/ log.correlationId = f.correlationId
    /\ f.apiName = "" \/ log.apiName = f.apiName
    /\ f.serviceName = "" \/ log.serviceName = f.serviceName
    /\ f.sessionId = "" \/ log.sessionId = f.sessionId
    /\ f.logLevel = "" \/ LevelOf(log) = f.logLevel
    /\ f.hasError = "" \/ log.hasError = f.hasError
    /\ f.startDate = 0 \/ (log.timestamp.offset # "?" /\ log.timestamp.t >= f.startDate)
    /\ f.endDate = 0 \/ (log.timestamp.offset # "?" /\ log.timestamp.t <= f.endDate)

\* C15: every record of a result satisfies every constraint set in the filter
\* of the query, and a record whose timestamp cannot be parsed is in no result
\* of a query with a date bound.
C15_ReturnedSatisfyFilter ==
    \A q \in 1..Len(returned) :
        \A i \in 1..Len(returned[q].logs) :
            Satisfies(returned[q].logs[i], returned[q].filter)

\* --------------------------------------------------------------------- C16
\* C16 as stated: for a filter with startDate <= endDate both set there is one
\* hot_cutoff = now - retention, now a clock value of the call, such that only
\* the hot tier is consulted iff startDate >= hot_cutoff, only the cold tier
\* iff endDate < hot_cutoff, and both iff startDate < hot_cutoff <= endDate.
C16_TierRouting ==
    \A q \in 1..Len(returned) :
        LET r == returned[q]
            f == r.filter
        IN  (f.startDate # 0 /\ f.endDate # 0) =>
               \E now \in {r.now1, r.now2} :
                  LET hot_cutoff == now - file_retention_days
                  IN  /\ (r.files /\ ~r.db) <=> f.startDate >= hot_cutoff
                      /\ (r.db /\ ~r.files) <=> f.endDate < hot_cutoff
                      /\ (r.files /\ r.db) <=>
                            (f.startDate < hot_cutoff /\ hot_cutoff <= f.endDate)


\* C16, amended: the two decisions read the clock one after the other.  The
\* files are consulted iff endDate >= cutoff_f and the table iff
\* startDate < cutoff_d, with cutoff_f <= cutoff_d the cutoffs of the two reads;
\* when the two reads give one value the three cases are those of hot_cutoff.
C16_TierRoutingTwoReads ==
    \A q \in 1..Len(returned) :
        LET r == returned[q]
            f == r.filter
            cutoff_f == r.now1 - file_retention_days
            cutoff_d == r.now2 - file_retention_days
        IN  (f.startDate # 0 /\ f.endDate # 0) =>
               /\ r.files <=> f.endDate >= cutoff_f
               /\ r.db <=> f.startDate < cutoff_d
               /\ r.files \/ r.db
               /\ r.now1 = r.now2 =>
                     /\ (r.files /\ ~r.db) <=> f.startDate >= cutoff_f
                     /\ (r.db /\ ~r.files) <=> f.endDate < cutoff_f
                     /\ (r.files /\ r.db) <=>
                           (f.startDate < cutoff_f /\ cutoff_f <= f.endDate)

\* one date range, asked twice: inside the hot window at first, and across the
\* cutoff once the clock has moved on
C16_Witness ==
    \E q1, q2 \in 1..Len(returned) :
        /\ returned[q1].filter.startDate # 0 /\ returned[q1].filter.endDate # 0
        /\ returned[q1].now1 = returned[q1].now2
        /\ returned[q2].now1 = returned[q2].now2
        /\ returned[q1].files /\ ~returned[q1].db
        /\ returned[q2].files /\ returned[q2].db

\* --------------------------------------------------------------------- C17
\* the predicates two subscribers would hold: A asks for the errors, B for the
\* rest; any other subscriber for everything
Predicate(c, log_data) ==
    IF c = "A" THEN log_data.logLevel = "ERROR"
    ELSE IF c = "B" THEN log_data.logLevel # "ERROR"
    ELSE TRUE

\* no connection has left the list so far
NoneRemoved == DOMAIN sends = SeqToSet(active_connections)

\* C17 as stated: a record is sent only to the subscribers whose predicate it
\* matches: a record that matches A's predicate and not B's is not sent to B.
C17_OnlyToMatchingSubscribers ==
    \A k \in 1..Len(broadcasts) :
        \A c \in broadcasts[k].sent : Predicate(c, broadcasts[k].msg)

\* C17, amended: broadcast_log knows no predicate.  While no connection leaves
\* the list, a finished broadcast has sent its record to every connection that
\* was in the list when it started, whatever the record.
C17_SentToEveryConnection ==
    NoneRemoved =>
        \A k \in 1..Len(broadcasts) :
            broadcasts[k].pc = "done" => broadcasts[k].at_start \subseteq broadcasts[k].sent

\* a finished broadcast of a record that matches A's predicate and not B's,
\* with A and B connected: B has received it
C17_Witness ==
    /\ NoneRemoved
    /\ \E k \in 1..Len(broadcasts) :
          /\ broadcasts[k].pc = "done"
          /\ {"A", "B"} \subseteq broadcasts[k].at_start
          /\ Predicate("A", broadcasts[k].msg) /\ ~Predicate("B", broadcasts[k].msg)
          /\ "A" \in broadcasts[k].sent
          /\ broadcasts[k].msg.id \in SeqToSet(received["B"])

\* --------------------------------------------------------------------- C18
\* the connections the broadcaster has removed
RemovedByBroadcast == UNION { broadcasts[k].removed : k \in 1..Len(broadcasts) }

\* the last two sends to a connection failed
TwoFailuresInARow(c) ==
    /\ Len(sends[c]) >= 2
    /\ sends[c][Len(sends[c])] = "fail"
    /\ sends[c][Len(sends[c]) - 1] = "fail"

\* C18 as stated: the broadcaster removes a subscriber only when two sends to
\* it in a row have failed.
C18_RemovedAfterTwoFailures ==
    \A c \in RemovedByBroadcast : TwoFailuresInARow(c)

\* C18, amended: one failed send is enough.  A connection a send to which has
\* failed is out of the list when the broadcast of that send ends, also when a
\* later send to it has succeeded; the broadcaster removes no other connection.
C18_RemovedAfterOneFailure ==
    /\ \A k \in 1..Len(broadcasts) :
          /\ broadcasts[k].removed \subseteq SeqToSet(broadcasts[k].disconnected)
          /\ \A c \in SeqToSet(broadcasts[k].disconnected) : "fail" \in SeqToSet(sends[c])
          /\ broadcasts[k].pc = "done" =>
                SeqToSet(broadcasts[k].disconnected) \cap SeqToSet(active_connections) = {}
    /\ \A c \in DOMAIN sends :
          "fail" \in SeqToSet(sends[c]) =>
              \/ c \notin SeqToSet(active_connections)
              \/ \E k \in 1..Len(broadcasts) :
                    /\ broadcasts[k].pc = "sending"
                    /\ c \in SeqToSet(broadcasts[k].disconnected)

\* a connection removed by the broadcaster after one failed send and then a
\* successful one
C18_Witness ==
    \E c \in RemovedByBroadcast : sends[c] = <<"fail", "ok">>

\* --------------------------------------------------------------------- C19
\* C19: every subscriber receives the new_log messages in the order in which
\* their broadcast_log calls were started, also when two broadcasts are in
\* flight.
C19_ReceivedInPublishedOrder ==
    \A c \in DOMAIN received :
        \A m, n \in 1..Len(received[c]) : m < n => received[c][m] < received[c][n]

\* --------------------------------------------------------------------- C21
\* the entries of the store that a call of search_logs asks for
Matching(call) ==
    { call.store[cid] : cid \in { k \in DOMAIN call.store :
        /\ call.api_name = "" \/ call.store[k].apiName = call.api_name
        /\ call.log_level = "" \/ call.store[k].logLevel = call.log_level } }

Min(a, b) == IF a < b THEN a ELSE b

\* C21: search_logs with limit n returns the n matching entries with the
\* greatest timestamps among all the entries of the store that match, whatever
\* the order in which the store enumerates its keys: as many entries as there
\* are matching ones up to n, each of them matching, in descending order of
\* timestamp, and no matching entry that was left out has a greater timestamp
\* than one that was returned.
C21_SearchReturnsGreatestTimestamps ==
    \A n \in 1..Len(cache_calls) :
        LET call == cache_calls[n] IN
        (call.op = "search_logs" /\ call.up) =>
            /\ Len(call.result) = Min(call.limit, Cardinality(Matching(call)))
            /\ SeqToSet(call.result) \subseteq Matching(call)
            /\ \A i, j \in 1..Len(call.result) :
                  i < j => StringKey(call.result[i].timestamp)
                              >= StringKey(call.result[j].timestamp)
            /\ \A log \in Matching(call) \ SeqToSet(call.result) :
                  \A i \in 1..Len(call.result) :
                      StringKey(log.timestamp) <= StringKey(call.result[i].timestamp)

\* --------------------------------------------------------------------- C29
\* call m changed what the store holds under cid
Wrote(m, cid) ==
    /\ cache_calls[m].op \in {"set_log", "delete_log", "expire"}
    /\ cache_calls[m].cid = cid
    /\ cache_calls[m].op # "expire" => cache_calls[m].result

\* the last call before call n that changed what the store holds under cid
LastWrite(n, cid) ==
    IF \E m \in 1..(n - 1) : Wrote(m, cid)
    THEN CHOOSE m \in 1..(n - 1) :
            Wrote(m, cid) /\ \A k \in (m + 1)..(n - 1) : ~Wrote(k, cid)
    ELSE 0

C29_DeleteWitness ==
    /\ Len(cache_calls) = 3
    /\ cache_calls[1].op = "set_log" /\ cache_calls[1].result
    /\ cache_calls[2].op = "delete_log" /\ cache_calls[2].result
    /\ cache_calls[2].cid = cache_calls[1].cid
    /\ cache_calls[3].op = "get_log" /\ cache_calls[3].cid = cache_calls[1].cid
    /\ cache_calls[3].up /\ cache_calls[3].result = None

\* --------------------------------------------------------------------- C22
\* the coroutine t went through its entries up to entry tasks[t].at: every one
\* of them that parses was delivered, whatever set_log returned
WentOn(t) ==
    \A j \in 1..tasks[t].at :
        LET log_data == parse_log_entry(tasks[t].entries[j]) IN
        (log_data.ok /\ log_data.correlationId # <<>>) =>
            \E i \in 1..Len(delivered) :
                delivered[i].log = log_data /\ delivered[i].file = tasks[t].file

IsObject(k) ==
    /\ Len(frames[k].body) = 3
    /\ frames[k].body[1] = "{" /\ frames[k].body[3] = "}"
ObjectOf(k) == frames[k].body[2]

\* frame k was accepted and emitted: a record with its JSON, framed by its marker
Emitted(k) ==
    \E i \in 1..Len(delivered) :
        /\ delivered[i].open = CidOf(k)
        /\ delivered[i].close = CidOf(k)
        /\ delivered[i].log.payload = ObjectOf(k)

\* the five required attributes of the record model
FiveRequired == {"correlationId", "timestamp", "apiName", "serviceName", "logLevel"}

C24_MarkerCidIsAuthoritative ==
    \A i \in 1..Len(delivered) :
        /\ delivered[i].log.correlationId = delivered[i].open
        /\ delivered[i].cached =>
              /\ delivered[i].open \in DOMAIN redis
              /\ redis[delivered[i].open].correlationId = delivered[i].open

\* --------------------------------------------------------------------- C25
\* the passes over f that were started have ended
PassesDone(f) ==
    /\ f \in DOMAIN file_positions
    /\ \A t \in TaskIds : tasks[t].kind = "idle"

\* the offset just past the closing marker of frame k
FrameEnd(k) == frames[k].start + Len(FrameOf(k, frames[k].body))

\* C25: a complete frame whose body is not valid JSON emits no record; when the
\* pass that read it has ended, the position is past its closing marker and
\* every well-formed frame before and after it in the read has been emitted,
\* each with its own pair of markers.
C25_InvalidJsonFrameIsSkipped ==
    \A k \in 1..Len(frames) :
        ~IsObject(k) =>
            /\ \A i \in 1..Len(delivered) : delivered[i].open # CidOf(k)
            /\ PassesDone("f1") =>
                  /\ file_positions["f1"] >= FrameEnd(k)
                  /\ \A j \in 1..Len(frames) :
                        (IsObject(j) /\ LogEntryValid(ObjectOf(j))) => Emitted(j)

\* a frame whose JSON is cut short between two well-formed frames: the pass
\* has ended, and the two have been emitted
C25_Witness ==
    /\ PassesDone("f1")
    /\ Len(frames) = 3
    /\ frames[2].body = <<"{", "p1">>
    /\ IsObject(1) /\ Emitted(1)
    /\ IsObject(3) /\ Emitted(3)
    /\ Len(delivered) = 2

\* --------------------------------------------------------------------- C26
\* the n-th event of the handlers is followed by a message sent for it
Answered(n) == n < Len(replies) /\ replies[n + 1].dir = "out"

RollingCounters(n) ==
    LET errors == Cardinality({m \in 1..n : published[m].logLevel = "ERROR"})
    IN  [total_logs |-> n, success_logs |-> n - errors, error_logs |-> errors]

\* C27: the stats of every stats_update message are the rolling counters that
\* publish maintains (total_logs the number of records published so far,
\* error_logs the number of them with level ERROR, success_logs the rest),
\* and a heartbeat leaves the counters as they are: stats_cache holds the
\* counts of the published records at all times.
C27_StatsAreRollingCounters ==
    /\ \A n \in 1..Len(replies) :
          (replies[n].dir = "out" /\ replies[n].message.type = "stats_update")
              => replies[n].message.stats = RollingCounters(replies[n].published)
    /\ stats_cache = RollingCounters(Len(published))

C30_ColdOnlyWhenHotMisses ==
    \A i \in 1..Len(returned) :
        /\ returned[i].cold => returned[i].hot_logs = <<>>
        /\ returned[i].hot_logs # <<>> => returned[i].logs = returned[i].hot_logs

\* --------------------------------------------------------------------- C31
\* the records emitted for f so far, in order
EmittedLogs(f) ==
    LET of_f == SelectSeq(delivered, LAMBDA d : d.file = f)
    IN  [n \in 1..Len(of_f) |-> of_f[n].log]
\* the records one call of _parse_and_cache_logs emits for the whole of f
OneCallLogs(f) ==
    LET r == parse_and_cache_logs(f, files[f], EmptyDict, EmptyDict, <<>>)
    IN  [n \in 1..Len(r.delivered) |-> r.delivered[n].log]
\* every byte of f was read by process_file executions that ran one after the
\* other (with no websocket_manager an execution never suspends)
ReadInSuccessiveCalls(f) ==
    /\ Quiescent(f)
    /\ ~websocket_manager
    /\ \A k \in 1..Len(frames) : frames[k].tailed

\* C31: however the content of a file is split into successive reads (split
\* points anywhere: inside a marker line, a cid, the JSON), the sequence of
\* records the successive _parse_and_cache_logs calls emit equals the sequence
\* emitted when the whole content is parsed in one call.
C31_ChunkingInvariance ==
    \A f \in DOMAIN files :
        ReadInSuccessiveCalls(f) => EmittedLogs(f) = OneCallLogs(f)


\* --------------------------------------------------------------------- C32
\* C32: for every filter, half-open date ranges included, get_logs consults at
\* least one tier; a filter with only endDate set and endDate before the cutoff
\* is sent to the table.
C32_SomeTierConsulted ==
    \A q \in 1..Len(returned) :
        LET r == returned[q]
            f == r.filter
        IN  /\ r.files \/ r.db
            /\ (f.startDate = 0 /\ f.endDate # 0
                /\ f.endDate < r.now2 - file_retention_days) => r.db


\* --------------------------------------------------------------------- C33
\* the connections that were in the list when broadcast k started and are
\* still in it (no websocket connects twice)
Stayed(k) == broadcasts[k].at_start \cap SeqToSet(active_connections)

\* C33: every connection that is in active_connections for the whole duration
\* of a broadcast_log call is sent the message of that call, also when
\* disconnect is called for another connection while the broadcast is
\* suspended in a send.
C33_StayingConnectionsAreSent ==
    \A k \in 1..Len(broadcasts) :
        broadcasts[k].pc = "done" => Stayed(k) \subseteq broadcasts[k].sent


\* --------------------------------------------------------------------- C34
\* C34: in every state of the broadcaster stats_cache satisfies total_logs =
\* success_logs + error_logs, none of the three negative, whatever the
\* interleaving of broadcast_log (_update_stats) and broadcast_stats.
C34_StatsAddUp ==
    /\ stats_cache.total_logs = stats_cache.success_logs + stats_cache.error_logs
    /\ stats_cache.total_logs >= 0
    /\ stats_cache.success_logs >= 0
    /\ stats_cache.error_logs >= 0

\* broadcast_stats has replaced the counters by what it found in the hot store
\* (records of both kinds), and a later broadcast_log has counted one more
C34_Witness ==
    \E n \in 1..Len(replies) :
        /\ replies[n].dir = "out"
        /\ replies[n].message.type = "stats_update"
        /\ replies[n].message.stats.total_logs > 0
        /\ replies[n].published < Len(published)
        /\ stats_cache.total_logs = replies[n].message.stats.total_logs + 1
        /\ stats_cache.success_logs > 0
        /\ stats_cache.error_logs > 0


\* --------------------------------------------------------------------- C35
\* connection c is sent a record in this step
SentNow(c) == c \in DOMAIN received /\ Len(received'[c]) > Len(received[c])

\* C35: whenever a record is sent to a subscriber, set_log for the record's
\* correlation id has been attempted before; if the hot store was reachable at
\* that put (and is reachable now), get_log of the correlation id returns the
\* record at the moment the subscriber is sent it.
C35_SentRecordIsInHotStore ==
    [][\A c \in DOMAIN received :
          SentNow(c) =>
             \E n \in {received'[c][Len(received'[c])]} :
                /\ n \in 1..Len(delivered')
                /\ (delivered'[n].cached /\ redis_up') =>
                      get_log(redis', delivered'[n].log.correlationId) = delivered'[n].log]_vars


\* --------------------------------------------------------------------- C36
\* C36: a get_logs call returns what the tiers hold when it is made, also when
\* the same filter was queried before: a record ingested between the two calls
\* is reflected in the second result (the query cache serves no result that
\* was computed before the record was ingested).
C36_QueryIsFresh ==
    \A q \in 1..Len(returned) :
        returned[q].from_cache =>
            /\ returned[q].total = returned[q].total_now
            /\ returned[q].logs = returned[q].logs_now


\* --------------------------------------------------------------------- C37
\* C37: scan_all_files leaves the tailing state as it found it: file_positions
\* and incomplete_logs are the same after it as before.
C37_ScanLeavesTailingState ==
    [][scans' # scans =>
          /\ file_positions' = file_positions
          /\ incomplete_logs' = incomplete_logs]_vars


\* --------------------------------------------------------------------- C38
\* the correlation ids of the records, of either tier, that a request for the
\* dashboard statistics asks for: those whose time lies in the range and whose
\* names match
StatsCids(r) ==
    LET all_logs == r.cache_logs \o r.db_logs
    IN  { all_logs[n].correlationId :
            n \in { m \in 1..Len(all_logs) :
                      /\ fromisoformat(all_logs[m].timestamp).ok
                      /\ fromisoformat(all_logs[m].timestamp).t >= r.range.start.t
                      /\ fromisoformat(all_logs[m].timestamp).t <= r.range.end.t
                      /\ r.api_name = "" \/ all_logs[m].apiName = r.api_name
                      /\ r.service_name = "" \/ all_logs[m].serviceName = r.service_name } }

\* C38: in the dashboard statistics every logical record is counted once, also
\* when both tiers hold it: total_logs is the number of distinct matching
\* correlation ids across the two tiers, and success_logs + error_logs =
\* total_logs.
C38_EachRecordCountedOnce ==
    \A q \in 1..Len(returned) :
        /\ returned[q].total_logs = Cardinality(StatsCids(returned[q]))
        /\ returned[q].success_logs + returned[q].error_logs = returned[q].total_logs
=========================================================================
